---- MODULE Spec2Model ----
(***************************************************************************)
(* Admission-and-dispatch pipeline of the log-analytics Lambda backend     *)
(* (src/lambda_backend): configuration check, API-key authentication,      *)
(* request validation, intent routing and the handlers' use of the store.  *)
(*                                                                         *)
(* Representation of Python values                                         *)
(*   - a str is a sequence of one-character strings; the character "E2"    *)
(*     stands for a code point whose UTF-8 encoding has two bytes;         *)
(*   - an Optional[str] is a record [some, s]; None is [some |-> FALSE];   *)
(*   - a headers dict is a total function from HeaderNames to              *)
(*     Optional[str]: a name that maps to None is absent from the dict.    *)
(***************************************************************************)
EXTENDS Integers, Sequences, FiniteSets, TLC

VARIABLES
    cfg,          \* the Config class attributes read from the environment
    event,        \* the API Gateway event of the last invocation
    stage,        \* where the last invocation returned
    response,     \* what the last invocation returned
    authTrace,    \* what authenticate_request did in the last invocation
    valTrace,     \* what validate_request did in the last invocation
    execTrace,    \* what execute_intent and the handler did
    uuids,        \* how many identifiers uuid.uuid4 has returned so far
    db_client,    \* _db_client is not None: the DatabaseClient exists
    connection,   \* DatabaseClient._connection: "none" or "open"
    access_logs,  \* committed rows of table access_logs
    error_logs,   \* committed rows of table error_logs
    last_stored,  \* history: the last store_access_log that succeeded
    emitted,      \* the last call of the logger and the record it wrote
    threads,      \* where each of two interleaved invocations stands
    uncommitted,  \* rows inserted on the connection and not yet committed
    lastrowid     \* the AUTO_INCREMENT counter of access_logs

vars == <<cfg, event, stage, response, authTrace, valTrace, execTrace,
          uuids, db_client, connection, access_logs, error_logs,
          last_stored, emitted, threads, uncommitted, lastrowid>>

(***************************************************************************)
(* Bounds of the model                                                     *)
(***************************************************************************)
\* longest API_KEYS string explored by the authentication specification
MaxKeysStrLen == 4
\* longest presented header value explored by the authentication specification
MaxHeaderLen == 2
\* most rows a table holds
MaxRows == 1

(***************************************************************************)
(* Strings                                                                 *)
(***************************************************************************)
None == [some |-> FALSE, s |-> <<>>]

Some(str) == [some |-> TRUE, s |-> str]

\* Python truthiness of an Optional[str]: None and "" are falsy
Truthy(o) == o.some /\ o.s # <<>>

\* a or b
PyOr(a, b) == IF Truthy(a) THEN a ELSE b

IsSpace(c) == c = " "

RECURSIVE LStrip(_)
LStrip(str) ==
    IF str # <<>> /\ IsSpace(Head(str)) THEN LStrip(Tail(str)) ELSE str

RECURSIVE RStrip(_)
RStrip(str) ==
    IF str # <<>> /\ IsSpace(str[Len(str)])
    THEN RStrip(SubSeq(str, 1, Len(str) - 1))
    ELSE str

\* str.strip()
Strip(str) == RStrip(LStrip(str))

\* str.split(','): the pieces between the commas, empty pieces kept
RECURSIVE SplitComma(_, _)
SplitComma(str, cur) ==
    IF str = <<>> THEN <<cur>>
    ELSE IF Head(str) = ","
         THEN <<cur>> \o SplitComma(Tail(str), <<>>)
         ELSE SplitComma(Tail(str), Append(cur, Head(str)))

\* bytes of one character under str.encode('utf-8')
Utf8Char(c) ==
    CASE c = "a"  -> <<97>>
      [] c = "b"  -> <<98>>
      [] c = " "  -> <<32>>
      [] c = ","  -> <<44>>
      [] c = "E2" -> <<195, 169>>
      [] OTHER    -> <<63>>

\* str.encode('utf-8')
RECURSIVE Encode(_)
Encode(str) ==
    IF str = <<>> THEN <<>> ELSE Utf8Char(Head(str)) \o Encode(Tail(str))

\* [f(x) for x in seq if p(x)] helpers
RECURSIVE MapStrip(_)
MapStrip(seq) ==
    IF seq = <<>> THEN <<>> ELSE <<Strip(Head(seq))>> \o MapStrip(Tail(seq))

RECURSIVE DropEmpty(_)
DropEmpty(seq) ==
    IF seq = <<>> THEN <<>>
    ELSE IF Head(seq) # <<>> THEN <<Head(seq)>> \o DropEmpty(Tail(seq))
         ELSE DropEmpty(Tail(seq))

(***************************************************************************)
(* config.py                                                               *)
(***************************************************************************)
\* a get_api_keys that keeps the whitespace around the keys
get_api_keys_NoStrip(c) ==
    IF c.API_KEYS_STR = <<>> THEN <<>>
    ELSE DropEmpty(SplitComma(c.API_KEYS_STR, <<>>))

\* Config.get_api_keys
get_api_keys(c) ==
    IF c.API_KEYS_STR = <<>> THEN <<>>
    ELSE DropEmpty(MapStrip(SplitComma(c.API_KEYS_STR, <<>>)))

\* a validate that does not look at the API keys
ConfigMissing_DbOnly(c) ==
    (IF c.DB_HOST = <<>> THEN <<"DB_HOST">> ELSE <<>>)
    \o (IF c.DB_NAME = <<>> THEN <<"DB_NAME">> ELSE <<>>)
    \o (IF c.DB_USER = <<>> THEN <<"DB_USER">> ELSE <<>>)
    \o (IF c.DB_PASSWORD = <<>> THEN <<"DB_PASSWORD">> ELSE <<>>)

\* Config.validate: the list of missing names; it raises iff the list is non-empty
ConfigMissing(c) ==
    (IF c.DB_HOST = <<>> THEN <<"DB_HOST">> ELSE <<>>)
    \o (IF c.DB_NAME = <<>> THEN <<"DB_NAME">> ELSE <<>>)
    \o (IF c.DB_USER = <<>> THEN <<"DB_USER">> ELSE <<>>)
    \o (IF c.DB_PASSWORD = <<>> THEN <<"DB_PASSWORD">> ELSE <<>>)
    \o (IF get_api_keys(c) = <<>> THEN <<"API_KEYS">> ELSE <<>>)

ConfigValidateRaises(c) == ConfigMissing(c) # <<>>

(***************************************************************************)
(* auth.py                                                                 *)
(***************************************************************************)
\* hmac.compare_digest on two byte strings: the loop runs over every byte of
\* the right operand and folds the differences, it never leaves early.
\* work = number of byte pairs examined.
RECURSIVE DigestFold(_, _, _, _)
DigestFold(left, right, i, acc) ==
    IF i > Len(right) THEN acc
    ELSE DigestFold(left, right, i + 1,
                    [diff |-> acc.diff \/ left[i] # right[i],
                     work |-> acc.work + 1])

compare_digest(x, y) ==
    LET same == Len(x) = Len(y)
        left == IF same THEN x ELSE y
        r    == DigestFold(left, y, 1, [diff |-> ~same, work |-> 0])
    IN  [eq |-> ~r.diff, work |-> r.work]

\* a comparison that stops at the first differing byte
RECURSIVE EarlyExitFold(_, _, _, _)
EarlyExitFold(x, y, i, work) ==
    IF i > Len(y) \/ i > Len(x) THEN [eq |-> Len(x) = Len(y), work |-> work]
    ELSE IF x[i] # y[i] THEN [eq |-> FALSE, work |-> work + 1]
         ELSE EarlyExitFold(x, y, i + 1, work + 1)

constant_time_compare_EarlyExit(a, b) ==
    IF Len(a) # Len(b) THEN [eq |-> FALSE, work |-> 0]
    ELSE EarlyExitFold(Encode(a), Encode(b), 1, 0)

\* constant_time_compare(a, b)
constant_time_compare(a, b) ==
    IF Len(a) # Len(b) THEN [eq |-> FALSE, work |-> 0]
    ELSE compare_digest(Encode(a), Encode(b))

\* the for loop of validate_api_key: returns at the first matching key;
\* cmps is the list of the comparisons made, in order
RECURSIVE KeyLoop(_, _, _)
KeyLoop(api_key, keys, cmps) ==
    IF keys = <<>> THEN [ok |-> FALSE, cmps |-> cmps]
    ELSE LET r    == constant_time_compare(api_key, Head(keys))
             cmp2 == Append(cmps, [a |-> api_key, b |-> Head(keys),
                                   eq |-> r.eq, work |-> r.work])
         IN  IF r.eq THEN [ok |-> TRUE, cmps |-> cmp2]
             ELSE KeyLoop(api_key, Tail(keys), cmp2)

\* a validate_api_key that loads the configured keys before it looks at the
\* presented one
validate_api_key_KeysFirst(c, api_key) ==
    LET valid_keys == get_api_keys(c)
    IN  IF ~Truthy(api_key) \/ valid_keys = <<>>
        THEN [ok |-> FALSE, keysRead |-> TRUE, cmps |-> <<>>]
        ELSE LET r == KeyLoop(api_key.s, valid_keys, <<>>)
             IN  [ok |-> r.ok, keysRead |-> TRUE, cmps |-> r.cmps]

\* validate_api_key(api_key): keysRead tells whether Config.get_api_keys ran
validate_api_key(c, api_key) ==
    IF ~Truthy(api_key)
    THEN [ok |-> FALSE, keysRead |-> FALSE, cmps |-> <<>>]
    ELSE LET valid_keys == get_api_keys(c)
         IN  IF valid_keys = <<>>
             THEN [ok |-> FALSE, keysRead |-> TRUE, cmps |-> <<>>]
             ELSE LET r == KeyLoop(api_key.s, valid_keys, <<>>)
                  IN  [ok |-> r.ok, keysRead |-> TRUE, cmps |-> r.cmps]

\* headers.get(name)
HeaderGet(headers, name) == headers[name]

\* extract_api_key(headers)
extract_api_key(headers) ==
    LET api_key == PyOr(HeaderGet(headers, "x-api-key"),
                        HeaderGet(headers, "X-Api-Key"))
    IN  IF Truthy(api_key) THEN Some(Strip(api_key.s)) ELSE None

UnauthorizedMsg == "Unauthorized: Invalid or missing API key"

\* authenticate_request(headers)
authenticate_request(c, headers) ==
    LET api_key == extract_api_key(headers)
        v       == validate_api_key(c, api_key)
    IN  [called |-> TRUE, headers |-> headers, api_key |-> api_key,
         ok |-> v.ok, msg |-> IF v.ok THEN "None" ELSE UnauthorizedMsg,
         keysRead |-> v.keysRead, cmps |-> v.cmps]

(***************************************************************************)
(* JSON values as json.loads produces them.  A value is a record           *)
(* [t, n, s]: t is the Python type, n the number (tenths for a float),     *)
(* s the text of a str as a character sequence.                            *)
(***************************************************************************)
JAbsent == [t |-> "absent", n |-> 0, s |-> <<>>]

JNull == [t |-> "null", n |-> 0, s |-> <<>>]

JInt(i) == [t |-> "int", n |-> i, s |-> <<>>]

\* a finite float, given in tenths: JFloat(25) is 2.5
JFloat(tenths) == [t |-> "float", n |-> tenths, s |-> <<>>]

\* json.loads accepts Infinity and NaN
JInf == [t |-> "inf", n |-> 0, s |-> <<>>]

JNaN == [t |-> "nan", n |-> 0, s |-> <<>>]

JBool(b) == [t |-> "bool", n |-> IF b THEN 1 ELSE 0, s |-> <<>>]

JStr(str) == [t |-> "str", n |-> 0, s |-> str]

\* a list; n is its length
JList(len) == [t |-> "list", n |-> len, s |-> <<>>]

\* Python truthiness of a value
JTruthy(v) ==
    CASE v.t \in {"absent", "null"} -> FALSE
      [] v.t \in {"int", "float", "bool", "list"} -> v.n # 0
      [] v.t = "str" -> v.s # <<>>
      [] OTHER -> TRUE

Digits == {"0", "1", "2", "3", "4", "5", "6", "7", "8", "9"}

DigitVal(c) ==
    CASE c = "0" -> 0 [] c = "1" -> 1 [] c = "2" -> 2 [] c = "3" -> 3
      [] c = "4" -> 4 [] c = "5" -> 5 [] c = "6" -> 6 [] c = "7" -> 7
      [] c = "8" -> 8 [] OTHER -> 9

RECURSIVE DigitsVal(_, _)
DigitsVal(str, acc) ==
    IF str = <<>> THEN acc
    ELSE DigitsVal(Tail(str), 10 * acc + DigitVal(Head(str)))

\* outcomes of a Python call: a value, or the exception class it raises
Ret(v) == [exc |-> "none", v |-> v]

Raise(e) == [exc |-> e, v |-> 0]

\* int(str): surrounding whitespace and one sign are accepted, then digits only
IntOfStr(str) ==
    LET t    == Strip(str)
        neg  == t # <<>> /\ Head(t) = "-"
        sgn  == t # <<>> /\ Head(t) \in {"-", "+"}
        body == IF sgn THEN Tail(t) ELSE t
    IN  IF body = <<>> \/ \E i \in 1..Len(body) : body[i] \notin Digits
        THEN Raise("ValueError")
        ELSE Ret(IF neg THEN 0 - DigitsVal(body, 0) ELSE DigitsVal(body, 0))

\* int(x) for a float given in tenths: truncation toward zero
TruncTenths(n) == IF n >= 0 THEN n \div 10 ELSE 0 - ((0 - n) \div 10)

\* int(v)
PyInt(v) ==
    CASE v.t \in {"int", "bool"} -> Ret(v.n)
      [] v.t = "float" -> Ret(TruncTenths(v.n))
      [] v.t = "inf" -> Raise("OverflowError")
      [] v.t = "nan" -> Raise("ValueError")
      [] v.t = "str" -> IntOfStr(v.s)
      [] OTHER -> Raise("TypeError")

(***************************************************************************)
(* validators.py                                                           *)
(***************************************************************************)
\* Config.MAX_PAYLOAD_SIZE (bytes)
MAX_PAYLOAD_SIZE == 1048576

\* Config.MAX_QUERY_LIMIT
MAX_QUERY_LIMIT == 1000

ALLOWED_INTENTS ==
    {"get_access_logs", "get_error_logs", "store_access_log",
     "store_error_log", "get_traffic_summary", "get_security_threats",
     "get_performance_metrics", "get_anomalies", "query_logs"}

\* results of the validate_* functions: st is "ok", "reject" (is_valid False)
\* or "raise" (an exception leaves the function); val is the parsed value
NoErr == [text |-> "", nums |-> <<>>]

Err(text) == [text |-> text, nums |-> <<>>]

ErrN(text, nums) == [text |-> text, nums |-> nums]

VOk(val) == [st |-> "ok", val |-> val, err |-> NoErr]

VReject(e) == [st |-> "reject", val |-> JNull, err |-> e]

VRaise(e) == [st |-> "raise", val |-> JNull, err |-> Err(e)]

\* the tests of validate_limit on r, the outcome of int(limit)
limit_of_int(r) ==
    CASE r.exc \in {"ValueError", "TypeError"} ->
             VReject(Err("Limit must be an integer"))
      [] r.exc = "OverflowError" -> VRaise("OverflowError")
      [] OTHER ->
             IF r.v < 1 THEN VReject(Err("Limit must be positive"))
             ELSE IF r.v > MAX_QUERY_LIMIT
                  THEN VReject(ErrN("Limit exceeds maximum: {max_limit}",
                                    <<MAX_QUERY_LIMIT>>))
                  ELSE VOk(JInt(r.v))

\* validate_limit(limit)
validate_limit(limit) ==
    IF limit.t \in {"null", "absent"} THEN VOk(JInt(100))
    ELSE limit_of_int(PyInt(limit))

\* validate_timestamp(timestamp)
validate_timestamp(timestamp) ==
    IF timestamp.t \in {"null", "absent"} THEN VOk(JNull)
    ELSE IF timestamp.t # "str" THEN VReject(Err("Timestamp must be a string"))
    ELSE IF Len(timestamp.s) < 10 THEN VReject(Err("Invalid timestamp format"))
    ELSE VOk(timestamp)

\* str.split('.')
RECURSIVE SplitDot(_, _)
SplitDot(str, cur) ==
    IF str = <<>> THEN <<cur>>
    ELSE IF Head(str) = "."
         THEN <<cur>> \o SplitDot(Tail(str), <<>>)
         ELSE SplitDot(Tail(str), Append(cur, Head(str)))

\* the loop over the four parts of validate_ip_address
RECURSIVE IpParts(_)
IpParts(parts) ==
    IF parts = <<>> THEN "ok"
    ELSE LET r == IntOfStr(Head(parts))
         IN  IF r.exc # "none" THEN "notnum"
             ELSE IF ~(0 <= r.v /\ r.v <= 255) THEN "range"
             ELSE IpParts(Tail(parts))

\* validate_ip_address(ip)
validate_ip_address(ip) ==
    IF ip.t \in {"null", "absent"} THEN VOk(JNull)
    ELSE IF ip.t # "str" THEN VReject(Err("IP address must be a string"))
    ELSE LET parts == SplitDot(ip.s, <<>>)
         IN  IF Len(parts) # 4 THEN VReject(Err("Invalid IP address format"))
             ELSE LET r == IpParts(parts)
                  IN  CASE r = "range" -> VReject(Err("Invalid IP address range"))
                        [] r = "notnum" ->
                               VReject(Err("IP address must contain numbers"))
                        [] OTHER -> VOk(ip)

\* the tests of validate_status_code on r, the outcome of int(status_code)
status_code_of_int(r) ==
    CASE r.exc \in {"ValueError", "TypeError"} ->
             VReject(Err("Status code must be an integer"))
      [] r.exc = "OverflowError" -> VRaise("OverflowError")
      [] OTHER ->
             IF ~(100 <= r.v /\ r.v <= 599)
             THEN VReject(Err("Status code must be between 100 and 599"))
             ELSE VOk(JInt(r.v))

\* validate_status_code(status_code)
validate_status_code(status_code) ==
    IF status_code.t \in {"null", "absent"} THEN VOk(JNull)
    ELSE status_code_of_int(PyInt(status_code))

(***************************************************************************)
(* Request bodies.  A body is [text, doc]:                                 *)
(*   text  the characters of the string, counted by the number of bytes    *)
(*         their UTF-8 encoding takes: [w1, w2, w3, w4];                   *)
(*   doc   what json.loads makes of the string: kind "error" when it       *)
(*         raises JSONDecodeError, else the kind of the top-level value    *)
(*         and, for a dict, its intent and params members.                 *)
(* An intent member is [t, name]: t = "str" for a string, "absent" when    *)
(* the key is missing, "falsy" for null, 0, false, [] or {}, "hashable"    *)
(* for a truthy number or bool, "unhashable" for a non-empty list or dict. *)
(* A params member is [kind, m, has]: kind "dict" with the members m       *)
(* (every key of ParamKeys, JAbsent when missing), "absent" when the key   *)
(* is missing, "list" or "str" (has = the names k with k in params),       *)
(* "scalar" for a number, bool or null.                                    *)
(***************************************************************************)
ParamKeys ==
    {"limit", "ip_address", "status_code", "start_time", "end_time",
     "timestamp", "method", "endpoint", "log_level", "error_code",
     "error_message", "severity_score", "http_version", "response_size",
     "response_time_ms", "user_agent", "department", "user_id",
     "process_id", "thread_id", "client_ip", "file_path", "line_number",
     "threshold_ms", "min_severity"}

NoParams == [k \in ParamKeys |-> JAbsent]

\* len(body.encode('utf-8'))
ByteLen(text) == text.w1 + 2 * text.w2 + 3 * text.w3 + 4 * text.w4

\* len(body)
CharLen(text) == text.w1 + text.w2 + text.w3 + text.w4

\* a size check that counts characters instead of encoded bytes
validate_payload_size_Chars(body) ==
    LET size == CharLen(body.text)
        max_size == MAX_PAYLOAD_SIZE
    IN  IF size > max_size
        THEN VReject(ErrN("Payload too large: {size} bytes (max: {max_size} bytes)",
                          <<size, max_size>>))
        ELSE VOk(JNull)

\* validate_payload_size(body)
validate_payload_size(body) ==
    LET size == ByteLen(body.text)
        max_size == MAX_PAYLOAD_SIZE
    IN  IF size > max_size
        THEN VReject(ErrN("Payload too large: {size} bytes (max: {max_size} bytes)",
                          <<size, max_size>>))
        ELSE VOk(JNull)

\* validate_json(body): json.loads and the except clause
validate_json(body) ==
    IF body.doc.kind = "error"
    THEN VReject(Err("Invalid JSON: {JSONDecodeError}"))
    ELSE VOk(JNull)

\* a validate_intent without the whitelist test
validate_intent_NoWhitelist(intent) ==
    IF intent.t \in {"absent", "falsy"} \/ (intent.t = "str" /\ intent.name = "")
    THEN VReject(Err("Intent is required"))
    ELSE VOk(JNull)

\* validate_intent(intent)
validate_intent(intent) ==
    IF intent.t \in {"absent", "falsy"} \/ (intent.t = "str" /\ intent.name = "")
    THEN VReject(Err("Intent is required"))
    ELSE IF intent.t = "unhashable" THEN VRaise("TypeError")
    ELSE IF ~(intent.t = "str" /\ intent.name \in ALLOWED_INTENTS)
    THEN VReject(Err("Unknown intent: " \o intent.name
                     \o ". Allowed intents: sorted(ALLOWED_INTENTS)"))
    ELSE VOk(JNull)

\* data.get('params', {})
ParamsOf(doc) ==
    IF doc.params.kind = "absent"
    THEN [kind |-> "dict", m |-> NoParams, has |-> {}]
    ELSE doc.params

\* key in params: "yes", "no" or "raise" (TypeError on a scalar)
PIn(params, k) ==
    CASE params.kind = "dict" ->
             IF params.m[k].t # "absent" THEN "yes" ELSE "no"
      [] params.kind \in {"list", "str"} ->
             IF k \in params.has THEN "yes" ELSE "no"
      [] OTHER -> "raise"

\* the validator validate_intent_params applies to the parameter k
ValidatorOf(k, v) ==
    CASE k = "limit" -> validate_limit(v)
      [] k = "ip_address" -> validate_ip_address(v)
      [] k = "status_code" -> validate_status_code(v)
      [] OTHER -> validate_timestamp(v)

\* if key in params: validate(params[key]); params[key] raises TypeError on a
\* list or a str
OptCheck(params, k) ==
    CASE PIn(params, k) = "raise" -> VRaise("TypeError")
      [] PIn(params, k) = "no" -> VOk(JNull)
      [] OTHER -> IF params.kind # "dict" THEN VRaise("TypeError")
                  ELSE ValidatorOf(k, params.m[k])

StoreAccessRequired ==
    <<"timestamp", "ip_address", "method", "endpoint", "status_code">>

\* a required list of store_error_log that forgets error_code
StoreErrorRequired_NoErrorCode ==
    <<"timestamp", "log_level", "error_message">>

StoreErrorRequired ==
    <<"timestamp", "log_level", "error_code", "error_message">>

\* one test of validate_intent_params: a required field or an optional check
Req(k) == [req |-> TRUE, key |-> k]

Opt(k) == [req |-> FALSE, key |-> k]

\* for field in required: if field not in params: return False, ...
Required(fields) == [i \in 1..Len(fields) |-> Req(fields[i])]

\* the tests of validate_intent_params in the order the code makes them
ParamChecks(intent) ==
    <<Opt("limit")>>
    \o
    CASE intent = "get_access_logs" ->
             <<Opt("ip_address"), Opt("status_code"), Opt("start_time"),
               Opt("end_time")>>
      [] intent = "store_access_log" ->
             Required(StoreAccessRequired)
             \o <<Opt("timestamp"), Opt("ip_address"), Opt("status_code")>>
      [] intent = "store_error_log" ->
             Required(StoreErrorRequired) \o <<Opt("timestamp")>>
      [] intent = "get_traffic_summary" ->
             <<Opt("start_time"), Opt("end_time")>>
      [] OTHER -> <<>>

\* one test on params: a missing required field is rejected by name
ParamCheck(params, chk) ==
    IF chk.req
    THEN CASE PIn(params, chk.key) = "raise" -> VRaise("TypeError")
           [] PIn(params, chk.key) = "no" ->
                  VReject(Err("Missing required field: " \o chk.key))
           [] OTHER -> VOk(JNull)
    ELSE OptCheck(params, chk.key)

\* the result of the first test that does not pass
RECURSIVE FirstFailure(_, _)
\* r is the result of the first of checks: return it, or go on
CheckThen(params, checks, r) ==
    IF r.st # "ok" THEN r ELSE FirstFailure(params, Tail(checks))

FirstFailure(params, checks) ==
    IF checks = <<>> THEN VOk(JNull)
    ELSE CheckThen(params, checks, ParamCheck(params, Head(checks)))

\* validate_intent_params(intent, params)
validate_intent_params(intent, params) ==
    FirstFailure(params, ParamChecks(intent))

\* the outcome of validate_request when the step `step` ends it with v
StepResult(v, parsed, step) ==
    [st |-> v.st, err |-> v.err, parsed |-> parsed, step |-> step]

\* the outcome of validate_request when the parameter step is reached
LastStep(v) ==
    StepResult(v, TRUE, IF v.st = "ok" THEN "done" ELSE "params")

\* validate_request(body): st/err as above; parsed tells whether json.loads
\* was called; step is the step of the pipeline that ended the call
validate_request(body) ==
    IF validate_payload_size(body).st # "ok"
    THEN StepResult(validate_payload_size(body), FALSE, "size")
    ELSE IF validate_json(body).st # "ok"
    THEN StepResult(validate_json(body), TRUE, "json")
    ELSE IF body.doc.kind # "dict"
    THEN StepResult(VRaise("AttributeError"), TRUE, "intent")
    ELSE IF validate_intent(body.doc.intent).st # "ok"
    THEN StepResult(validate_intent(body.doc.intent), TRUE, "intent")
    ELSE LastStep(validate_intent_params(body.doc.intent.name,
                                         ParamsOf(body.doc)))

(***************************************************************************)
(* db_client.py.  One unit of work (execute_query / execute_insert /       *)
(* execute_update) is _get_connection (ping, connect), conn.cursor,        *)
(* cursor.execute, then commit, or rollback and re-raise.  What the server *)
(* and the network do during the unit is its outcome o:                    *)
(*   "ok"            every call returns                                    *)
(*   "reconnect"     ping raises (when a connection is held), the rest ok  *)
(*   "connect_fail"  ping raises (when a connection is held) and           *)
(*                   pymysql.connect raises                                *)
(*   "execute_fail"  cursor.execute raises, rollback returns               *)
(*   "commit_fail"   conn.commit raises, rollback returns                  *)
(*   "conn_lost"     cursor.execute raises and conn.rollback raises too    *)
(* The store persists the effect of a statement exactly when its commit    *)
(* returns.                                                                *)
(***************************************************************************)
DbFailures == {"connect_fail", "execute_fail", "commit_fail", "conn_lost"}

\* get_db_client(): the global instance, created when there is none
get_db_client(client) == [client |-> TRUE, created |-> ~client]

\* a _get_connection that never reuses the connection it holds
get_connection_NoReuse(conn, o) ==
    [pinged |-> conn = "open", connected |-> TRUE,
     conn |-> IF o = "connect_fail" THEN "none" ELSE "open",
     raised |-> o = "connect_fail"]

\* DatabaseClient._get_connection under outcome o: whether it pinged the
\* connection it held, whether it called pymysql.connect, the connection
\* afterwards and whether the call raised
get_connection(conn, o) ==
    IF conn = "open" /\ o \notin {"reconnect", "connect_fail"}
    THEN [pinged |-> TRUE, connected |-> FALSE, conn |-> "open", raised |-> FALSE]
    ELSE [pinged |-> conn = "open", connected |-> TRUE,
          conn |-> IF o = "connect_fail" THEN "none" ELSE "open",
          raised |-> o = "connect_fail"]

\* DatabaseClient._get_cursor around one cursor.execute, after
\* _get_connection returned c: how often execute, commit and rollback were
\* called, whether commit returned, whether the unit returned normally, and
\* the call whose exception reaches the caller ("none" when it returns)
get_cursor(c, o) ==
    [conn_before |-> "none", pinged |-> c.pinged, connected |-> c.connected,
     conn |-> c.conn,
     sent |-> IF c.raised THEN 0 ELSE 1,
     commits |-> IF c.raised \/ o \in {"execute_fail", "conn_lost"} THEN 0 ELSE 1,
     committed |-> ~c.raised /\ o \notin DbFailures,
     rollbacks |-> IF ~c.raised /\ o \in {"execute_fail", "commit_fail", "conn_lost"}
                   THEN 1 ELSE 0,
     returned |-> ~c.raised /\ o \notin DbFailures,
     raised |-> CASE c.raised -> "connect"
                  [] o = "execute_fail" -> "execute"
                  [] o = "commit_fail" -> "commit"
                  [] o = "conn_lost" -> "rollback"
                  [] OTHER -> "none"]

\* Config.DB_MAX_RETRIES (default): no module reads it
DB_MAX_RETRIES == 3

\* a unit of work that sends a failed statement again, DB_MAX_RETRIES times
unit_of_work_Retried(conn, o) ==
    [get_cursor(get_connection(conn, o), o) EXCEPT
        !.conn_before = conn,
        !.sent = IF @ = 1 /\ o \in {"execute_fail", "commit_fail", "conn_lost"}
                 THEN 1 + DB_MAX_RETRIES ELSE @]

\* execute_query / execute_insert / execute_update: one statement in one
\* unit of work
unit_of_work(conn, o) ==
    [get_cursor(get_connection(conn, o), o) EXCEPT !.conn_before = conn]

\* the statements a handler issues one after the other; it stops at the first
\* that raises.  done is the list of the units so far: the statement, the
\* outcome and what unit_of_work did.
RECURSIVE run_statements(_, _, _, _)
\* u is the unit of the first statement: stop when it raised, else go on
after_unit(stmts, outcomes, done, u) ==
    IF ~u.returned
    THEN [conn |-> u.conn, ok |-> FALSE,
          done |-> Append(done, Head(stmts) @@ [outcome |-> Head(outcomes)] @@ u)]
    ELSE run_statements(u.conn, Tail(stmts), Tail(outcomes),
                        Append(done, Head(stmts) @@ [outcome |-> Head(outcomes)] @@ u))

run_statements(conn, stmts, outcomes, done) ==
    IF stmts = <<>> THEN [conn |-> conn, ok |-> TRUE, done |-> done]
    ELSE after_unit(stmts, outcomes, done, unit_of_work(conn, Head(outcomes)))

(***************************************************************************)
(* intents.py                                                              *)
(***************************************************************************)
Stmt(sql, limit) == [sql |-> sql, limit |-> limit]

\* params.get(k): None when the key is missing
PGet(params, k) == IF params.m[k].t = "absent" THEN JNull ELSE params.m[k]

\* params.get(k, default)
PGetDefault(params, k, default) ==
    IF params.m[k].t = "absent" THEN default ELSE params.m[k]

AccessColumns ==
    <<"timestamp", "ip_address", "method", "endpoint", "http_version",
      "status_code", "response_size", "response_time_ms", "user_agent",
      "department", "user_id">>

ErrorColumns ==
    <<"timestamp", "log_level", "process_id", "thread_id", "client_ip",
      "error_code", "error_message", "file_path", "line_number",
      "severity_score">>

\* query_params of handle_store_access_log
AccessRow(params) == [i \in 1..Len(AccessColumns) |-> PGet(params, AccessColumns[i])]

\* query_params of handle_store_error_log
ErrorRow(params) ==
    [i \in 1..Len(ErrorColumns) |->
        IF ErrorColumns[i] = "severity_score"
        THEN PGetDefault(params, "severity_score", JInt(5))
        ELSE PGet(params, ErrorColumns[i])]

(***************************************************************************)
(* The tables (schema in db_client.py).  A row is [id, cols]; cols holds   *)
(* the values of the columns as a later SELECT returns them and            *)
(* json.dumps(body, default=str) prints them: a DATETIME comes back as     *)
(* 'YYYY-MM-DD HH:MM:SS', an INT as a number.  The timestamps explored are *)
(* dates and date-times in MySQL's formats and the INT values explored are *)
(* numbers and numeric strings.                                            *)
(***************************************************************************)
AccessColumnTypes ==
    <<"DATETIME", "VARCHAR", "VARCHAR", "VARCHAR", "VARCHAR", "INT", "INT",
      "INT", "VARCHAR", "VARCHAR", "VARCHAR">>

ErrorColumnTypes ==
    <<"DATETIME", "VARCHAR", "INT", "INT", "VARCHAR", "VARCHAR", "TEXT",
      "VARCHAR", "INT", "INT">>

Midnight == <<" ", "0", "0", ":", "0", "0", ":", "0", "0">>

\* the DATETIME of a string literal, printed by str(): a date gets the time
\* 00:00:00 and the ISO separator T becomes a space
DatetimeOf(str) ==
    IF Len(str) = 10 THEN str \o Midnight
    ELSE IF Len(str) > 10 /\ str[11] = "T" THEN [str EXCEPT ![11] = " "]
    ELSE str

\* the INT of a bound value: a numeric string is converted, a float rounded
IntColumn(v) ==
    CASE v.t = "float" -> JInt(IF v.n >= 0 THEN (v.n + 5) \div 10
                               ELSE 0 - ((5 - v.n) \div 10))
      [] v.t = "bool" -> JInt(v.n)
      [] v.t = "str" /\ PyInt(v).exc = "none" -> JInt(PyInt(v).v)
      [] OTHER -> v

\* the value a column of the given type holds after the bound value v was
\* inserted
ColumnValue(type, v) ==
    CASE v.t \in {"null", "absent"} -> JNull
      [] type = "DATETIME" /\ v.t = "str" -> JStr(DatetimeOf(v.s))
      [] type = "INT" -> IntColumn(v)
      [] OTHER -> v

\* the columns of the row that INSERT ... VALUES (query_params) creates
StoredRow(types, query_params) ==
    [i \in DOMAIN query_params |-> ColumnValue(types[i], query_params[i])]

\* row[name] of a row of access_logs
ColumnOf(row, name) ==
    row.cols[CHOOSE i \in 1..Len(AccessColumns) : AccessColumns[i] = name]

\* a <= b for two date-times printed in the same format
RECURSIVE DatetimeLeq(_, _)
DatetimeLeq(a, b) ==
    IF a = <<>> THEN TRUE
    ELSE IF b = <<>> THEN FALSE
    ELSE IF DigitVal(Head(a)) # DigitVal(Head(b))
    THEN DigitVal(Head(a)) < DigitVal(Head(b))
    ELSE DatetimeLeq(Tail(a), Tail(b))

\* str LIKE '%sub%' for a sub without wildcard characters
Contains(str, sub) ==
    \E i \in 0..(Len(str) - Len(sub)) : SubSeq(str, i + 1, i + Len(sub)) = sub

\* one condition of the WHERE clause of handle_get_access_logs on a row
Condition(row, f) ==
    CASE f.key = "ip_address" -> ColumnOf(row, "ip_address") = f.val
      [] f.key = "status_code" ->
             IF f.val.t = "float"
             THEN f.val.n = 10 * ColumnOf(row, "status_code").n
             ELSE PyInt(f.val).v = ColumnOf(row, "status_code").n
      [] f.key = "start_time" ->
             DatetimeLeq(DatetimeOf(f.val.s), ColumnOf(row, "timestamp").s)
      [] f.key = "end_time" ->
             DatetimeLeq(ColumnOf(row, "timestamp").s, DatetimeOf(f.val.s))
      [] f.key = "endpoint" ->
             f.val.t = "str" /\ Contains(ColumnOf(row, "endpoint").s, f.val.s)
      [] OTHER -> TRUE

\* the rows that satisfy every condition of the filter
Where(rows, filter) ==
    SelectSeq(rows, LAMBDA r : \A i \in 1..Len(filter) : Condition(r, filter[i]))

\* ORDER BY timestamp DESC LIMIT n over the rows m: the ways to pick and
\* order the rows returned.  The store breaks ties of the ordering key as
\* it likes.
OrderByTimestampDescLimit(m, n) ==
    LET k == IF n < Len(m) THEN n ELSE Len(m)
    IN  {p \in [1..k -> 1..Len(m)] :
            /\ \A i, j \in 1..k : i < j =>
                  /\ p[i] # p[j]
                  /\ DatetimeLeq(ColumnOf(m[p[j]], "timestamp").s,
                                 ColumnOf(m[p[i]], "timestamp").s)
            /\ \A x \in 1..Len(m) : \A i \in 1..k :
                  (\A j \in 1..k : p[j] # x) =>
                      DatetimeLeq(ColumnOf(m[x], "timestamp").s,
                                  ColumnOf(m[p[i]], "timestamp").s)}

\* a SELECT without its WHERE clause
fetchall_NoWhere(rows, filter, limit) ==
    {[i \in DOMAIN p |-> rows[p[i]]] :
        p \in OrderByTimestampDescLimit(rows, limit)}

\* cursor.fetchall() after the SELECT of handle_get_access_logs: the lists
\* of rows the store may return
fetchall(rows, filter, limit) ==
    {[i \in DOMAIN p |-> Where(rows, filter)[p[i]]] :
        p \in OrderByTimestampDescLimit(Where(rows, filter), limit)}

\* results of db.execute_query in the handler whose trace is exec: the
\* rows of get_access_logs (the data of the other read handlers is not
\* modelled), nothing when no SELECT returned
Fetched(exec, rows) ==
    IF exec.handler = "get_access_logs" /\ exec.stmts # <<>>
       /\ exec.stmts[1].returned
    THEN fetchall(rows, exec.filter, exec.stmts[1].limit)
    ELSE {<<>>}

\* the ways to list the elements of the set S
Orderings(S) ==
    {p \in [1..Cardinality(S) -> S] :
        \A i, j \in 1..Cardinality(S) : i # j => p[i] # p[j]}

\* the rows of the time range that have status code 401
Failures(rows, filter) ==
    SelectSeq(Where(rows, filter),
              LAMBDA r : ColumnOf(r, "status_code") = JInt(401))

\* a brute-force query that reports an address from two failures on
brute_force_FromTwo(rows, filter) ==
    {[severity |-> "HIGH", type |-> "Brute Force Attack", ip_address |-> a,
      count |-> Cardinality({i \in 1..Len(Failures(rows, filter)) :
                    ColumnOf(Failures(rows, filter)[i], "ip_address") = a}),
      endpoint |-> JNull] :
        a \in {x \in {ColumnOf(Failures(rows, filter)[i], "ip_address") :
                         i \in 1..Len(Failures(rows, filter))} :
                 Cardinality({i \in 1..Len(Failures(rows, filter)) :
                    ColumnOf(Failures(rows, filter)[i], "ip_address") = x}) >= 2}}

\* SELECT ip_address, COUNT(*) as failures ... status_code = 401 GROUP BY
\* ip_address HAVING failures >= 3, and the threat the handler appends for
\* each row of the result
brute_force(rows, filter) ==
    {[severity |-> "HIGH", type |-> "Brute Force Attack", ip_address |-> a,
      count |-> Cardinality({i \in 1..Len(Failures(rows, filter)) :
                    ColumnOf(Failures(rows, filter)[i], "ip_address") = a}),
      endpoint |-> JNull] :
        a \in {x \in {ColumnOf(Failures(rows, filter)[i], "ip_address") :
                         i \in 1..Len(Failures(rows, filter))} :
                 Cardinality({i \in 1..Len(Failures(rows, filter)) :
                    ColumnOf(Failures(rows, filter)[i], "ip_address") = x}) >= 3}}

\* user_agent LIKE '%sqlmap%' OR user_agent LIKE '%curl%'
Suspicious(row) ==
    /\ ColumnOf(row, "user_agent").t = "str"
    /\ \/ Contains(ColumnOf(row, "user_agent").s, <<"s", "q", "l", "m", "a", "p">>)
       \/ Contains(ColumnOf(row, "user_agent").s, <<"c", "u", "r", "l">>)

\* the second query of handle_get_security_threats and the threat appended
\* for each row, the row's id kept to tell equal threats apart
sql_injection(rows, filter) ==
    {[id |-> Where(rows, filter)[i].id,
      threat |-> [severity |-> "MEDIUM", type |-> "SQL Injection Attempt",
                  ip_address |-> ColumnOf(Where(rows, filter)[i], "ip_address"),
                  count |-> 0,
                  endpoint |-> ColumnOf(Where(rows, filter)[i], "endpoint")]] :
        i \in {j \in 1..Len(Where(rows, filter)) :
                  Suspicious(Where(rows, filter)[j])}}

\* data.threats of handle_get_security_threats: the brute-force threats,
\* then the injection threats, each group in the order the store returns
\* its rows; nothing for another handler or when a query failed
Threats(exec, rows) ==
    IF exec.handler = "get_security_threats" /\ Len(exec.stmts) = 2
       /\ exec.stmts[2].returned
    THEN {b \o [i \in DOMAIN q |-> q[i].threat] :
             b \in Orderings(brute_force(rows, exec.filter)),
             q \in Orderings(sql_injection(rows, exec.filter))}
    ELSE {<<>>}

\* is_valid, limit_val, _ = validate_limit(limit); if not is_valid:
\* limit_val = 100
limit_or_fallback(v) ==
    CASE v.st = "raise" -> [raised |-> TRUE, limit_val |-> 0, fallback |-> FALSE]
      [] v.st = "reject" -> [raised |-> FALSE, limit_val |-> 100, fallback |-> TRUE]
      [] OTHER -> [raised |-> FALSE, limit_val |-> v.val.n, fallback |-> FALSE]

\* limit = params.get('limit', 100); validate_limit(limit); fallback to 100
HandlerLimit(params) ==
    limit_or_fallback(validate_limit(PGetDefault(params, "limit", JInt(100))))

\* int(params['severity_score']) of handle_get_error_logs raises
BadSeverity(sev) == JTruthy(sev) /\ PyInt(sev).exc # "none"

\* the params a handler tests with "if k in params and params[k]" before it
\* appends them to query_params, in the order of the code
InKeys(intent) ==
    CASE intent = "get_access_logs" ->
             <<"ip_address", "status_code", "start_time", "end_time", "endpoint">>
      [] intent = "get_error_logs" ->
             <<"log_level", "severity_score", "start_time", "end_time",
               "error_code">>
      [] intent \in {"get_traffic_summary", "get_security_threats",
                     "get_performance_metrics", "get_anomalies"} ->
             <<"start_time", "end_time">>
      [] OTHER -> <<>>

\* the handlers that call params.get(...) or index params unconditionally
UsesGet(intent) ==
    intent \notin {"get_traffic_summary", "get_security_threats"}

\* building the statements raises inside the handler's try: a mapping raises
\* at int(severity_score) only; a list or a string raises at params[k] when
\* "k in params" holds and at params.get or params['...'] otherwise; a
\* scalar raises at the first "in"
BuildRaises(intent, params) ==
    CASE params.kind = "dict" ->
             intent = "get_error_logs" /\ BadSeverity(params.m["severity_score"])
      [] params.kind \in {"list", "str"} ->
             \/ \E i \in 1..Len(InKeys(intent)) : InKeys(intent)[i] \in params.has
             \/ UsesGet(intent)
      [] OTHER -> TRUE

\* the value appended to query_params for the param k
FilterVal(k, v) ==
    IF k = "severity_score" THEN JInt(PyInt(v).v) ELSE v

\* the filter values with a default that two handlers always append
DefaultFilter(intent, params) ==
    CASE intent = "get_performance_metrics" ->
             <<[key |-> "threshold_ms",
                val |-> PGetDefault(params, "threshold_ms", JInt(1000))]>>
      [] intent = "get_anomalies" ->
             <<[key |-> "min_severity",
                val |-> PGetDefault(params, "min_severity", JInt(8))]>>
      [] OTHER -> <<>>

\* the truthy params among keys, as [key, val] in order
RECURSIVE PresentFilter(_, _)
PresentFilter(params, keys) ==
    IF keys = <<>> THEN <<>>
    ELSE (IF JTruthy(params.m[Head(keys)])
          THEN <<[key |-> Head(keys),
                  val |-> FilterVal(Head(keys), params.m[Head(keys)])]>>
          ELSE <<>>)
         \o PresentFilter(params, Tail(keys))

\* query_params before the LIMIT: the dynamic values of the WHERE clause
FilterOf(intent, params) ==
    PresentFilter(params, InKeys(intent)) \o DefaultFilter(intent, params)

\* conditions.append('<column> <op> %s') for the param k: the text up to
\* the placeholder
ConditionOf(k) ==
    CASE k = "ip_address" -> "ip_address ="
      [] k = "status_code" -> "status_code ="
      [] k = "start_time" -> "timestamp >="
      [] k = "end_time" -> "timestamp <="
      [] k = "endpoint" -> "endpoint LIKE"
      [] k = "log_level" -> "log_level ="
      [] k = "severity_score" -> "severity_score >="
      [] k = "error_code" -> "error_code ="
      [] k = "threshold_ms" -> "response_time_ms >"
      [] OTHER -> "severity_score >="

\* ' AND '.join(conditions), the placeholder %s being a piece of its own
RECURSIVE JoinAnd(_)
JoinAnd(filter) ==
    IF filter = <<>> THEN <<>>
    ELSE <<ConditionOf(Head(filter).key), "%s">>
         \o (IF Tail(filter) = <<>> THEN <<>> ELSE <<"AND">>)
         \o JoinAnd(Tail(filter))

\* where_clause = 'WHERE ' + ' AND '.join(conditions) if conditions else ''
where_clause(filter) ==
    IF filter = <<>> THEN <<>> ELSE <<"WHERE">> \o JoinAnd(filter)

\* {where_clause} {'AND' if conditions else 'WHERE'}
where_and(filter) ==
    where_clause(filter) \o (IF filter = <<>> THEN <<"WHERE">> ELSE <<"AND">>)

\* the text of the statement sql as the handler builds it: the pieces of
\* the f-string, each placeholder %s, the keyword LIMIT and a literal limit
\* a piece of its own
query(sql, filter) ==
    CASE sql = "select_access_logs" ->
             <<"SELECT id, timestamp, ip_address, method, endpoint, http_version, status_code, response_size, response_time_ms, user_agent, department, user_id FROM access_logs">>
             \o where_clause(filter) \o <<"ORDER BY timestamp DESC", "LIMIT", "%s">>
      [] sql = "select_error_logs" ->
             <<"SELECT id, timestamp, log_level, process_id, thread_id, client_ip, error_code, error_message, file_path, line_number, severity_score FROM error_logs">>
             \o where_clause(filter)
             \o <<"ORDER BY timestamp DESC, severity_score DESC", "LIMIT", "%s">>
      [] sql = "insert_access_log" ->
             <<"INSERT INTO access_logs (timestamp, ip_address, method, endpoint, http_version, status_code, response_size, response_time_ms, user_agent, department, user_id) VALUES (">>
             \o [i \in 1..11 |-> "%s"] \o <<")">>
      [] sql = "insert_error_log" ->
             <<"INSERT INTO error_logs (timestamp, log_level, process_id, thread_id, client_ip, error_code, error_message, file_path, line_number, severity_score) VALUES (">>
             \o [i \in 1..10 |-> "%s"] \o <<")">>
      [] sql = "count_total" ->
             <<"SELECT COUNT(*) as total FROM access_logs">> \o where_clause(filter)
      [] sql = "count_errors" ->
             <<"SELECT COUNT(*) as errors FROM access_logs">>
             \o where_and(filter) \o <<"status_code >= 400">>
      [] sql = "top_endpoints" ->
             <<"SELECT endpoint, COUNT(*) as count FROM access_logs">>
             \o where_clause(filter)
             \o <<"GROUP BY endpoint ORDER BY count DESC", "LIMIT", "10">>
      [] sql = "top_ips" ->
             <<"SELECT ip_address, COUNT(*) as count FROM access_logs">>
             \o where_clause(filter)
             \o <<"GROUP BY ip_address ORDER BY count DESC", "LIMIT", "10">>
      [] sql = "brute_force" ->
             <<"SELECT ip_address, COUNT(*) as failures FROM access_logs">>
             \o where_and(filter)
             \o <<"status_code = 401 GROUP BY ip_address HAVING failures >= 3">>
      [] sql = "sql_injection" ->
             <<"SELECT ip_address, user_agent, endpoint FROM access_logs">>
             \o where_and(filter)
             \o <<"(user_agent LIKE", "%s", "OR user_agent LIKE", "%s", ")">>
      [] sql = "slow_endpoints" ->
             <<"SELECT endpoint, AVG(response_time_ms) as avg_response_time, MAX(response_time_ms) as peak_response_time, COUNT(*) as request_count FROM access_logs">>
             \o where_clause(filter)
             \o <<"GROUP BY endpoint ORDER BY peak_response_time DESC", "LIMIT", "20">>
      [] OTHER ->
             <<"SELECT timestamp, error_code, error_message, severity_score, client_ip, file_path FROM error_logs">>
             \o where_clause(filter)
             \o <<"ORDER BY severity_score DESC, timestamp DESC", "LIMIT", "50">>

\* the value appended to query_params for the filter f: the endpoint goes
\* into f"%{params['endpoint']}%" (the endpoints explored are strings)
BoundValue(f) ==
    IF f.key = "endpoint" /\ f.val.t = "str"
    THEN JStr(<<"%">> \o f.val.s \o <<"%">>)
    ELSE f.val

\* query_params with the limit appended before the filter values
query_params_LimitFirst(sql, filter, limit, row) ==
    IF sql \in {"select_access_logs", "select_error_logs"}
    THEN <<JInt(limit)>> \o [i \in DOMAIN filter |-> BoundValue(filter[i])]
    ELSE row

\* tuple(query_params) of the statement sql; row is the tuple of an INSERT
query_params(sql, filter, limit, row) ==
    CASE sql \in {"select_access_logs", "select_error_logs"} ->
             [i \in DOMAIN filter |-> BoundValue(filter[i])] \o <<JInt(limit)>>
      [] sql \in {"insert_access_log", "insert_error_log"} -> row
      [] sql = "sql_injection" ->
             [i \in DOMAIN filter |-> BoundValue(filter[i])]
             \o <<JStr(<<"%", "s", "q", "l", "m", "a", "p", "%">>),
                  JStr(<<"%", "c", "u", "r", "l", "%">>)>>
      [] OTHER -> [i \in DOMAIN filter |-> BoundValue(filter[i])]

\* db.execute_query(query, tuple(query_params)): the statements with their
\* text and their bound values
Queries(stmts, filter, row) ==
    [i \in DOMAIN stmts |->
        stmts[i] @@ [text |-> query(stmts[i].sql, filter),
                     args |-> query_params(stmts[i].sql, filter,
                                           stmts[i].limit, row)]]

\* the plan of a handler that selects with a LIMIT: l is its HandlerLimit
SelectPlan(sql, l, filter) ==
    [raised |-> l.raised, fallback |-> l.fallback,
     stmts |-> IF l.raised THEN <<>>
               ELSE Queries(<<Stmt(sql, l.limit_val)>>, filter, <<>>),
     filter |-> IF l.raised THEN <<>> ELSE filter]

\* a plan of fixed statements
FixedPlan(stmts, filter, row) ==
    [raised |-> FALSE, fallback |-> FALSE,
     stmts |-> Queries(stmts, filter, row), filter |-> filter]

\* the statements of the handlers without a caller-chosen LIMIT
FixedStmts(intent) ==
    CASE intent = "store_access_log" -> <<Stmt("insert_access_log", 0)>>
      [] intent = "store_error_log" -> <<Stmt("insert_error_log", 0)>>
      [] intent = "get_traffic_summary" ->
             <<Stmt("count_total", 0), Stmt("count_errors", 0),
               Stmt("top_endpoints", 10), Stmt("top_ips", 10)>>
      [] intent = "get_security_threats" ->
             <<Stmt("brute_force", 0), Stmt("sql_injection", 0)>>
      [] intent = "get_performance_metrics" -> <<Stmt("slow_endpoints", 20)>>
      [] OTHER -> <<Stmt("anomalies", 50)>>

\* the statements a handler builds before it touches the store, or raised
\* when building them raises (the handler's except clause catches it)
HandlerPlan(intent, params) ==
    IF BuildRaises(intent, params)
    THEN [raised |-> TRUE, stmts |-> <<>>, fallback |-> FALSE, filter |-> <<>>]
    ELSE IF intent \in {"get_access_logs", "get_error_logs"}
    THEN SelectPlan(IF intent = "get_access_logs" THEN "select_access_logs"
                    ELSE "select_error_logs",
                    HandlerLimit(params), FilterOf(intent, params))
    ELSE FixedPlan(FixedStmts(intent), FilterOf(intent, params),
                   CASE intent = "store_access_log" -> AccessRow(params)
                     [] intent = "store_error_log" -> ErrorRow(params)
                     [] OTHER -> <<>>)

\* the text of the exception e that the handler's except clause catches: the
\* store's error for a failed unit of work, Python's for a failed statement
\* of the handler itself, "" when nothing was raised
Caught(plan, run) ==
    CASE plan.raised -> "TypeError/ValueError/AttributeError in handler"
      [] ~run.ok -> "pymysql.err: " \o run.done[Len(run.done)].raised
                    \o " failed"
      [] OTHER -> ""

\* an except clause that returns str(e)
HandlerError_Leaky(intent, e) == e

\* except Exception as e: logger.error(..., error=e); return {'success':
\* False, 'error': <the handler's message>}
HandlerError(intent, e) ==
    CASE intent = "get_access_logs" -> "Failed to retrieve access logs"
      [] intent = "get_error_logs" -> "Failed to retrieve error logs"
      [] intent = "store_access_log" -> "Failed to store access log"
      [] intent = "store_error_log" -> "Failed to store error log"
      [] intent = "get_traffic_summary" -> "Failed to retrieve traffic summary"
      [] intent = "get_security_threats" -> "Failed to detect security threats"
      [] intent = "get_performance_metrics" -> "Failed to retrieve performance metrics"
      [] OTHER -> "Failed to detect anomalies"

\* the keys of INTENT_HANDLERS
INTENT_HANDLERS ==
    {"get_access_logs", "get_error_logs", "store_access_log",
     "store_error_log", "get_traffic_summary", "get_security_threats",
     "get_performance_metrics", "get_anomalies"}

NoExec ==
    [handler |-> "none", no_handler |-> FALSE, db_client |-> FALSE,
     client_created |-> FALSE, caught |-> "", fallback |-> FALSE,
     stmts |-> <<>>,
     filter |-> <<>>]

\* what a handler returns and leaves behind: db is what get_db_client
\* returned, plan the handler's HandlerPlan, run what run_statements made of
\* the plan
HandlerResult(intent, params, alogs, elogs, db, plan, run) ==
    LET ok   == ~plan.raised /\ run.ok
        newA == IF ok /\ intent = "store_access_log"
                THEN Append(alogs, [id |-> Len(alogs) + 1,
                                    cols |-> StoredRow(AccessColumnTypes,
                                                      AccessRow(params))])
                ELSE alogs
        newE == IF ok /\ intent = "store_error_log"
                THEN Append(elogs, [id |-> Len(elogs) + 1,
                                    cols |-> StoredRow(ErrorColumnTypes,
                                                      ErrorRow(params))])
                ELSE elogs
    IN  [success |-> ok,
         error |-> IF ok THEN "" ELSE HandlerError(intent, Caught(plan, run)),
         id |-> CASE ok /\ intent = "store_access_log" -> Len(newA)
                  [] ok /\ intent = "store_error_log" -> Len(newE)
                  [] OTHER -> 0,
         client |-> db.client, conn |-> run.conn, alogs |-> newA, elogs |-> newE,
         trace |-> [handler |-> intent, no_handler |-> FALSE,
                    db_client |-> TRUE, client_created |-> db.created,
                    caught |-> Caught(plan, run), fallback |-> plan.fallback,
                    stmts |-> run.done, filter |-> plan.filter]]

\* handler(params): get_db_client(), then the handler builds its statements
\* and runs them
RunHandler(intent, params, outcomes, client, conn, alogs, elogs, plan) ==
    HandlerResult(intent, params, alogs, elogs, get_db_client(client), plan,
                  run_statements(conn, plan.stmts, outcomes, <<>>))

\* execute_intent(intent, params) under the store outcomes `outcomes`:
\* the result dict, the trace, and the client and tables afterwards
execute_intent(intent, params, outcomes, client, conn, alogs, elogs) ==
    IF intent \notin INTENT_HANDLERS
    THEN [success |-> FALSE, error |-> "No handler for intent: " \o intent,
          id |-> 0, client |-> client, conn |-> conn, alogs |-> alogs,
          elogs |-> elogs,
          trace |-> [NoExec EXCEPT !.no_handler = TRUE]]
    ELSE RunHandler(intent, params, outcomes, client, conn, alogs, elogs,
                    HandlerPlan(intent, params))

(***************************************************************************)
(* lambda_function.py                                                      *)
(***************************************************************************)
HeaderNames == {"x-api-key", "X-Api-Key", "X-API-KEY"}

NoHeaders == [h \in HeaderNames |-> None]

TextOf(w1, w2, w3, w4) == [w1 |-> w1, w2 |-> w2, w3 |-> w3, w4 |-> w4]

NoIntent == [t |-> "absent", name |-> ""]

StrIntent(name) == [t |-> "str", name |-> name]

AbsentParams == [kind |-> "absent", m |-> NoParams, has |-> {}]

DictParams(m) == [kind |-> "dict", m |-> m, has |-> {}]

Doc(kind, intent, params) == [kind |-> kind, intent |-> intent, params |-> params]

\* the string '{}' and what json.loads makes of it
DefaultBody ==
    [text |-> TextOf(2, 0, 0, 0), doc |-> Doc("dict", NoIntent, AbsentParams)]

\* the string ''
EmptyBody ==
    [text |-> TextOf(0, 0, 0, 0), doc |-> Doc("error", NoIntent, AbsentParams)]

\* uuid.uuid4(): an identifier that no earlier call of uuid4 has returned;
\* n is the number of identifiers returned so far
uuid4(n) == n + 1

\* response bodies: the keys present and their values
ErrorBody(e, request_id) ==
    [has_success |-> FALSE, success |-> FALSE, has_error |-> TRUE, error |-> e,
     has_data |-> FALSE, id |-> 0, logs |-> <<>>, threats |-> <<>>,
     has_request_id |-> TRUE, request_id |-> request_id]

\* {'request_id': request_id, **result}; logs is data.logs and threats is
\* data.threats, filled in with what the store returned
ResultBody(r, request_id) ==
    [has_success |-> TRUE, success |-> r.success, has_error |-> ~r.success,
     error |-> Err(r.error), has_data |-> r.success, id |-> r.id,
     logs |-> <<>>, threats |-> <<>>, has_request_id |-> TRUE,
     request_id |-> request_id]

\* default_headers of create_response
DefaultHeaders ==
    [h \in {"Content-Type", "X-Content-Type-Options", "X-Frame-Options",
            "X-XSS-Protection", "Strict-Transport-Security"} |->
        CASE h = "Content-Type" -> "application/json"
          [] h = "X-Content-Type-Options" -> "nosniff"
          [] h = "X-Frame-Options" -> "DENY"
          [] h = "X-XSS-Protection" -> "1; mode=block"
          [] OTHER -> "max-age=31536000; includeSubDomains"]

\* a create_response that sends the content type only
create_response_BareHeaders(status_code, body) ==
    [statusCode |-> status_code,
     headers |-> [h \in {"Content-Type"} |-> "application/json"],
     body |-> body]

\* create_response(status_code, body)
create_response(status_code, body) ==
    [statusCode |-> status_code, headers |-> DefaultHeaders, body |-> body]

NoAuth ==
    [called |-> FALSE, headers |-> NoHeaders, api_key |-> None, ok |-> FALSE,
     msg |-> "", keysRead |-> FALSE, cmps |-> <<>>]

NoVal == [called |-> FALSE, st |-> "ok", err |-> NoErr, parsed |-> FALSE,
          step |-> "none"]

ValTraceOf(v) == [called |-> TRUE, st |-> v.st, err |-> v.err,
                  parsed |-> v.parsed, step |-> v.step]

\* a gateway that tests the method before the credential
Admission_MethodFirst(auth_ok, http_method) ==
    IF http_method # "POST" THEN "method"
    ELSE IF ~auth_ok THEN "auth"
    ELSE "admitted"

\* steps 1 and 2 of lambda_handler: the credential is tested first, the
\* method second
Admission(auth_ok, http_method) ==
    IF ~auth_ok THEN "auth"
    ELSE IF http_method # "POST" THEN "method"
    ELSE "admitted"

\* a status that ignores the result's success flag
StatusOf_Always200(result) == 200

\* status_code = 200 if result.get('success', False) else 500
StatusOf(result) == IF result.success THEN 200 ELSE 500

\* the body of lambda_handler after the extraction of the request: auth is
\* what authenticate_request returned, val what validate_request returned
\* and result what execute_intent returned (each used only when the call
\* gets that far)
Respond(c, request_id, http_method, auth, val, result, same) ==
    IF ConfigValidateRaises(c)
    THEN [stage |-> "config", auth |-> NoAuth, val |-> NoVal, exec |-> NoExec,
          response |-> create_response(500, ErrorBody(Err("Server configuration error"),
                                               request_id))]
         @@ same
    ELSE IF Admission(auth.ok, http_method) = "auth"
    THEN [stage |-> "auth", auth |-> auth, val |-> NoVal, exec |-> NoExec,
          response |-> create_response(401, ErrorBody(Err(auth.msg),
                                               request_id))]
         @@ same
    ELSE IF Admission(auth.ok, http_method) = "method"
    THEN [stage |-> "method", auth |-> auth, val |-> NoVal, exec |-> NoExec,
          response |-> create_response(405, ErrorBody(Err("Method not allowed. Use POST."),
                                               request_id))]
         @@ same
    ELSE IF val.st = "reject"
    THEN [stage |-> "validation", auth |-> auth, val |-> ValTraceOf(val),
          exec |-> NoExec,
          response |-> create_response(400, ErrorBody(val.err,
                                               request_id))]
         @@ same
    ELSE IF val.st = "raise"
    THEN [stage |-> "unexpected", auth |-> auth, val |-> ValTraceOf(val),
          exec |-> NoExec,
          response |-> create_response(500, ErrorBody(Err("Internal server error"),
                                               request_id))]
         @@ same
    ELSE [stage |-> "execute", auth |-> auth, val |-> ValTraceOf(val),
          exec |-> result.trace,
          response |-> create_response(StatusOf(result), ResultBody(result, request_id)),
          client |-> result.client, conn |-> result.conn,
          alogs |-> result.alogs, elogs |-> result.elogs]

\* body_str = event.get('body', '{}') or '{}'
BodyStrOf(ev) == IF CharLen(ev.body.text) = 0 THEN DefaultBody ELSE ev.body

\* http_method = event.get('httpMethod', 'POST')
HttpMethodOf(ev) == IF ev.httpMethod = "absent" THEN "POST" ELSE ev.httpMethod

\* lambda_handler(event, context) with the store behaving as `outcomes`:
\* the response, the stage that returned it, and everything the call did
lambda_handler(c, ev, request_id, outcomes, client, conn, alogs, elogs) ==
    Respond(c, request_id, HttpMethodOf(ev),
            authenticate_request(c, ev.headers),
            validate_request(BodyStrOf(ev)),
            execute_intent(BodyStrOf(ev).doc.intent.name,
                           ParamsOf(BodyStrOf(ev).doc),
                           outcomes, client, conn, alogs, elogs),
            [client |-> client, conn |-> conn, alogs |-> alogs, elogs |-> elogs])

(***************************************************************************)
(* Inputs                                                                  *)
(***************************************************************************)
SetStr == <<"h">>

\* configurations of the gateway specification
GatewayKeyStrs ==
    {<<>>, <<" ", ",">>, <<"a">>, <<"a", ",", " ", "b">>}

DbSet == [DB_HOST |-> SetStr, DB_NAME |-> SetStr, DB_USER |-> SetStr,
          DB_PASSWORD |-> SetStr]

\* the database settings: all set, one missing, or none set
DbSettings ==
    {DbSet, [n \in DOMAIN DbSet |-> <<>>]}
    \cup {[DbSet EXCEPT ![n] = <<>>] : n \in DOMAIN DbSet}

GatewayConfigs ==
    {d @@ [API_KEYS_STR |-> k] : d \in DbSettings, k \in GatewayKeyStrs}

\* header values of the gateway specification
GatewayHeaderVals ==
    {None, Some(<<>>), Some(<<" ">>), Some(<<"a">>), Some(<<"b", " ">>),
     Some(<<"c">>)}

GatewayHeaders ==
    {h \in [HeaderNames -> GatewayHeaderVals] :
        h["X-API-KEY"] \in {None, Some(<<"a">>)}}

GoodHeaders == [NoHeaders EXCEPT !["x-api-key"] = Some(<<"a">>)]

Methods == {"absent", "POST", "GET"}

ParamsWith(f) ==
    DictParams([k \in ParamKeys |-> IF k \in DOMAIN f THEN f[k] ELSE JAbsent])

LimitSamples ==
    {JNull, JInt(0 - 1), JInt(0), JInt(1), JInt(100), JInt(MAX_QUERY_LIMIT),
     JInt(MAX_QUERY_LIMIT + 1), JInt(5000),
     JStr(<<"5">>), JStr(<<" ", "7", " ">>), JStr(<<"x">>), JStr(<<>>),
     JStr(<<"1", "0", "0", "1">>), JStr(<<"-", "1">>), JStr(<<"2", ".", "5">>),
     JFloat(25), JFloat(5), JFloat(10005), JInf, JNaN,
     JBool(TRUE), JBool(FALSE), JList(0), JList(1)}

Timestamp == JStr(<<"2", "0", "2", "4", "-", "0", "1", "-", "0", "1">>)

ShortTimestamp == JStr(<<"2", "0", "2", "4">>)

IpAddr == JStr(<<"1", ".", "2", ".", "3", ".", "4">>)

BadIpAddr == JStr(<<"1", ".", "2", ".", "3">>)

AccessLogParams ==
    [timestamp |-> Timestamp, ip_address |-> IpAddr, method |-> JStr(<<"G">>),
     endpoint |-> JStr(<<"/">>), status_code |-> JInt(401)]

ErrorLogParams ==
    [timestamp |-> Timestamp, log_level |-> JStr(<<"E">>),
     error_code |-> JStr(<<"E", "1">>), error_message |-> JStr(<<"m">>)]

\* f without the key k
Without(f, k) == [x \in DOMAIN f \ {k} |-> f[x]]

IntentSamples ==
    {NoIntent, [t |-> "falsy", name |-> "null"], StrIntent(""),
     [t |-> "hashable", name |-> "5"], [t |-> "unhashable", name |-> "[1]"],
     StrIntent("drop_table"), StrIntent("GET_ACCESS_LOGS")}
    \cup {StrIntent(i) : i \in ALLOWED_INTENTS}

OddParams ==
    {[kind |-> "list", m |-> NoParams, has |-> {}],
     [kind |-> "list", m |-> NoParams, has |-> {"limit"}],
     [kind |-> "list", m |-> NoParams, has |-> {"timestamp", "ip_address",
          "method", "endpoint", "status_code"}],
     [kind |-> "list", m |-> NoParams, has |-> {"start_time"}],
     [kind |-> "str", m |-> NoParams, has |-> {}],
     [kind |-> "scalar", m |-> NoParams, has |-> {}]}

DictParamSamples ==
    {ParamsWith([limit |-> l]) : l \in LimitSamples}
    \cup {ParamsWith(AccessLogParams), ParamsWith(ErrorLogParams),
          ParamsWith(Without(AccessLogParams, "endpoint")),
          ParamsWith(Without(ErrorLogParams, "error_code")),
          ParamsWith([AccessLogParams EXCEPT !.timestamp = ShortTimestamp]),
          ParamsWith([AccessLogParams EXCEPT !.ip_address = BadIpAddr]),
          ParamsWith([AccessLogParams EXCEPT !.status_code = JInt(99)]),
          ParamsWith([ip_address |-> IpAddr, status_code |-> JInt(401)]),
          ParamsWith(Without(Without(AccessLogParams, "endpoint"), "ip_address")),
          ParamsWith([limit |-> JInt(5)] @@ Without(AccessLogParams, "status_code")),
          ParamsWith([limit |-> JInt(0)] @@ Without(ErrorLogParams, "error_code")),
          ParamsWith([limit |-> JInt(5000)] @@ Without(AccessLogParams, "timestamp")),
          ParamsWith([start_time |-> ShortTimestamp]),
          ParamsWith([severity_score |-> JStr(<<"x">>)]),
          ParamsWith([severity_score |-> JInt(8)]),
          ParamsWith([severity_score |-> JInt(0)]),
          ParamsWith([ip_address |-> JStr(<<"5", ".", "6", ".", "7", ".", "8">>),
                      status_code |-> JInt(200),
                      endpoint |-> JStr(<<"/", "a">>)])}

DocSamples ==
    {Doc(k, NoIntent, AbsentParams) : k \in {"error", "list", "str", "num", "null"}}
    \cup {Doc("dict", i, AbsentParams) : i \in IntentSamples}
    \cup {Doc("dict", StrIntent(i), p) :
             i \in ALLOWED_INTENTS, p \in OddParams \cup DictParamSamples}
    \cup {Doc("dict", StrIntent("drop_table"), ParamsWith([limit |-> JInt(5000)]))}

SmallText == TextOf(40, 0, 0, 0)

\* texts around the size limit: one-byte and multi-byte characters
TextSamples ==
    {SmallText,
     TextOf(MAX_PAYLOAD_SIZE - 1, 0, 0, 0),
     TextOf(MAX_PAYLOAD_SIZE, 0, 0, 0),
     TextOf(MAX_PAYLOAD_SIZE + 1, 0, 0, 0),
     TextOf(0, 0, 0, MAX_PAYLOAD_SIZE \div 4),
     TextOf(1, 0, 0, MAX_PAYLOAD_SIZE \div 4),
     TextOf(MAX_PAYLOAD_SIZE - 3, 2, 0, 0),
     TextOf(0, 0, MAX_PAYLOAD_SIZE \div 3, 0),
     TextOf(2, 0, MAX_PAYLOAD_SIZE \div 3, 0)}

BodySamples ==
    {[text |-> SmallText, doc |-> d] : d \in DocSamples}
    \cup {[text |-> t, doc |-> d] :
             t \in TextSamples,
             d \in {Doc("error", NoIntent, AbsentParams),
                    Doc("list", NoIntent, AbsentParams),
                    Doc("dict", StrIntent("get_access_logs"), AbsentParams),
                    Doc("dict", StrIntent("drop_table"), AbsentParams)}}

MakeEvent(h, m, b) == [headers |-> h, httpMethod |-> m, body |-> b]

\* the events explored: every header and method sample with the empty body,
\* and every body sample behind a valid POST and behind a GET without key
Events ==
    {MakeEvent(h, m, b) :
        h \in GatewayHeaders, m \in Methods, b \in {EmptyBody}}
    \cup {MakeEvent(GoodHeaders, m, b) : m \in {"POST"}, b \in BodySamples}
    \cup {MakeEvent(NoHeaders, "GET", b) : b \in BodySamples}

\* no handler issues more statements than handle_get_traffic_summary
MaxStatements == 4

AllOk == [i \in 1..MaxStatements |-> "ok"]

\* store outcomes explored: at most one unit of work of a call goes wrong
OutcomeSeqs ==
    {AllOk, [AllOk EXCEPT ![1] = "reconnect"]}
    \cup {[AllOk EXCEPT ![i] = f] : i \in 1..MaxStatements, f \in DbFailures}

(***************************************************************************)
(* logger.py.  A logged value is [t, s, items]: a str with the characters  *)
(* s, a dict with the items [key, val] in insertion order, or a list with  *)
(* the items [key |-> <<>>, val].  The record the logger writes is the     *)
(* dict that json.dumps prints; its timestamp is left out.                 *)
(***************************************************************************)
LStr(str) == [t |-> "str", s |-> str, items |-> <<>>]

LDict(items) == [t |-> "dict", s |-> <<>>, items |-> items]

LList(vals) ==
    [t |-> "list", s |-> <<>>,
     items |-> [i \in DOMAIN vals |-> [key |-> <<>>, val |-> vals[i]]]]

sensitive_keys ==
    <<<<"p", "a", "s", "s", "w", "o", "r", "d">>,
      <<"a", "p", "i", "_", "k", "e", "y">>,
      <<"x", "-", "a", "p", "i", "-", "k", "e", "y">>,
      <<"a", "u", "t", "h", "o", "r", "i", "z", "a", "t", "i", "o", "n">>,
      <<"t", "o", "k", "e", "n">>,
      <<"s", "e", "c", "r", "e", "t">>,
      <<"c", "r", "e", "d", "e", "n", "t", "i", "a", "l">>,
      <<"d", "b", "_", "p", "a", "s", "s", "w", "o", "r", "d">>>>

UpperCase ==
    <<"A", "B", "C", "D", "E", "F", "G", "H", "I", "J", "K", "L", "M", "N",
       "O", "P", "Q", "R", "S", "T", "U", "V", "W", "X", "Y", "Z">>

LowerCase ==
    <<"a", "b", "c", "d", "e", "f", "g", "h", "i", "j", "k", "l", "m", "n",
       "o", "p", "q", "r", "s", "t", "u", "v", "w", "x", "y", "z">>

\* str.lower()
lower(str) ==
    [i \in DOMAIN str |->
        IF \E j \in 1..26 : UpperCase[j] = str[i]
        THEN LowerCase[CHOOSE j \in 1..26 : UpperCase[j] = str[i]]
        ELSE str[i]]

\* any(sensitive in key_lower for sensitive in sensitive_keys)
IsSensitive(key) ==
    \E i \in DOMAIN sensitive_keys : Contains(lower(key), sensitive_keys[i])

REDACTED == LStr(<<"***REDACTED***">>)

RECURSIVE sanitize(_)
\* a _sanitize that passes lists on as they are
sanitize_ListsAsIs(data) ==
    IF data.t = "dict"
    THEN LDict([i \in DOMAIN data.items |->
                  [key |-> data.items[i].key,
                   val |-> IF IsSensitive(data.items[i].key) THEN REDACTED
                           ELSE sanitize(data.items[i].val)]])
    ELSE data

\* StructuredLogger._sanitize(data)
sanitize(data) ==
    CASE data.t = "dict" ->
             LDict([i \in DOMAIN data.items |->
                      [key |-> data.items[i].key,
                       val |-> IF IsSensitive(data.items[i].key) THEN REDACTED
                               ELSE sanitize(data.items[i].val)]])
      [] data.t = "list" ->
             LList([i \in DOMAIN data.items |-> sanitize(data.items[i].val)])
      [] data.t = "str" /\ Len(data.s) > 1000 ->
             LStr(SubSeq(data.s, 1, 1000) \o <<"... [TRUNCATED]">>)
      [] OTHER -> data

\* level.upper()
LevelUpper(level) ==
    CASE level = "debug" -> "DEBUG" [] level = "info" -> "INFO"
      [] level = "warning" -> "WARNING" [] level = "error" -> "ERROR"
      [] OTHER -> "CRITICAL"

\* StructuredLogger._log(level, message, **kwargs): the record handed to
\* json.dumps
log(level, message, kwargs) ==
    [level |-> LevelUpper(level), message |-> message,
     fields |-> sanitize(kwargs)]

\* no invocation is under way
Threads == {1, 2}

NoThread ==
    [pc |-> "idle", calls |-> 0, intent |-> "", cols |-> <<>>, stmt |-> 0,
     id |-> 0, total |-> 0, errors |-> 0, error_rate |-> 0, rollbacks |-> 0,
     overlapped |-> FALSE, returned |-> FALSE, success |-> FALSE]

NoThreads == [t \in Threads |-> NoThread]

NoRecord ==
    [called |-> FALSE, kwargs |-> LDict(<<>>),
     record |-> [level |-> "", message |-> "", fields |-> LDict(<<>>)]]

(***************************************************************************)
(* The gateway specification: one action per invocation of lambda_handler  *)
(***************************************************************************)
\* invocations explored in one process
MaxInvocations == 3

NoEvent == MakeEvent(NoHeaders, "absent", EmptyBody)

NoResponse == create_response(0, ErrorBody(NoErr, 0))

\* no store_access_log has succeeded so far
NothingStored == [some |-> FALSE, id |-> 0, fields |-> <<>>]

Init ==
    /\ cfg \in GatewayConfigs
    /\ event = NoEvent
    /\ stage = "idle"
    /\ response = NoResponse
    /\ authTrace = NoAuth
    /\ valTrace = NoVal
    /\ execTrace = NoExec
    /\ uuids = 0
    /\ db_client = FALSE
    /\ connection = "none"
    /\ access_logs = <<>>
    /\ error_logs = <<>>
    /\ last_stored = NothingStored
    /\ emitted = NoRecord
    /\ threads = NoThreads
    /\ uncommitted = <<>>
    /\ lastrowid = 0

\* does the call reach execute_intent?  only then the store outcomes matter
ReachesStore(c, ev) ==
    lambda_handler(c, ev, 0, AllOk, FALSE, "none", <<>>, <<>>).stage = "execute"

\* the runtime hands the instance the event ev: the whole of lambda_handler
\* runs and returns the response
LambdaHandler(ev, outcomes, rows) ==
    /\ outcomes[1] = "reconnect" => connection = "open"
    /\ uuids < MaxInvocations
    /\ uuids' = uuid4(uuids)
    /\ \E r \in {lambda_handler(cfg, ev, uuid4(uuids), outcomes, db_client,
                                 connection, access_logs, error_logs)} :
          /\ Len(r.alogs) <= rows
          /\ Len(r.elogs) <= rows
          /\ event' = ev
          /\ stage' = r.stage
          /\ \E logs \in Fetched(r.exec, access_logs) :
                \E threats \in Threats(r.exec, access_logs) :
                   response' = [r.response EXCEPT !.body.logs = logs,
                                                  !.body.threats = threats]
          /\ authTrace' = r.auth
          /\ valTrace' = r.val
          /\ execTrace' = r.exec
          /\ db_client' = r.client
          /\ connection' = r.conn
          /\ access_logs' = r.alogs
          /\ error_logs' = r.elogs
          /\ last_stored' = IF r.exec.handler = "store_access_log"
                               /\ r.response.body.success
                            THEN [some |-> TRUE, id |-> r.response.body.id,
                                  fields |-> AccessRow(ParamsOf(BodyStrOf(ev).doc))]
                            ELSE last_stored
    /\ UNCHANGED <<cfg, emitted, threads, uncommitted, lastrowid>>

\* the response has gone to the caller; the warm instance waits for the next
\* event with its DatabaseClient kept (calls within an instance are serial)
NextInvocation ==
    /\ stage # "idle"
    /\ event' = NoEvent
    /\ stage' = "idle"
    /\ response' = NoResponse
    /\ authTrace' = NoAuth
    /\ valTrace' = NoVal
    /\ execTrace' = NoExec
    /\ UNCHANGED <<cfg, uuids, db_client, connection, access_logs, error_logs,
                   last_stored, emitted, threads, uncommitted, lastrowid>>

\* an idle instance takes one event at a time
Invoke ==
    /\ stage = "idle"
    /\ \E ev \in Events :
          \E outcomes \in (IF ReachesStore(cfg, ev) THEN OutcomeSeqs ELSE {AllOk}) :
             LambdaHandler(ev, outcomes, MaxRows)

Next == Invoke \/ NextInvocation

Spec == Init /\ [][Next]_vars

(***************************************************************************)
(* The round-trip specification: store_access_log and get_access_logs      *)
(* calls by address against a table that holds any rows stored earlier     *)
(***************************************************************************)
\* rows in access_logs when the instance starts
MaxStored == 2

IpAddr2 == JStr(<<"5", ".", "6", ".", "7", ".", "8">>)

\* 2024-01-02 00:00:00
Datetime2 ==
    JStr(<<"2", "0", "2", "4", "-", "0", "1", "-", "0", "2">> \o Midnight)

\* the fields F stored: a date and a date-time, two addresses, and a
\* status code given as a string
RoundTripFields ==
    {[AccessLogParams EXCEPT !.timestamp = t, !.ip_address = a] :
        t \in {Timestamp, Datetime2}, a \in {IpAddr, IpAddr2}}
    \cup {[AccessLogParams EXCEPT !.timestamp = Datetime2,
                                  !.status_code = JStr(<<"2", "0", "0">>)]}

PostOf(intent, f) ==
    MakeEvent(GoodHeaders, "POST",
              [text |-> SmallText,
               doc |-> Doc("dict", StrIntent(intent), ParamsWith(f))])

RoundTripEvents ==
    {PostOf("store_access_log", f) : f \in RoundTripFields}
    \cup {PostOf("get_access_logs", [ip_address |-> a]) : a \in {IpAddr, IpAddr2}}
    \cup {PostOf("get_access_logs", [ip_address |-> a, limit |-> JInt(l)]) :
             a \in {IpAddr, IpAddr2}, l \in 1..2}

\* the tables of at most n rows that earlier store_access_log calls left
StoredTables(n) ==
    UNION {{[i \in 1..k |->
               [id |-> i,
                cols |-> StoredRow(AccessColumnTypes, AccessRow(ParamsWith(f[i])))]] :
            f \in [1..k -> RoundTripFields]} : k \in 0..n}

InitRoundTrip ==
    /\ cfg = DbSet @@ [API_KEYS_STR |-> <<"a">>]
    /\ event = NoEvent
    /\ stage = "idle"
    /\ response = NoResponse
    /\ authTrace = NoAuth
    /\ valTrace = NoVal
    /\ execTrace = NoExec
    /\ uuids = 0
    /\ db_client = FALSE
    /\ connection = "none"
    /\ access_logs \in StoredTables(MaxStored)
    /\ error_logs = <<>>
    /\ last_stored = NothingStored
    /\ emitted = NoRecord
    /\ threads = NoThreads
    /\ uncommitted = <<>>
    /\ lastrowid = 0

InvokeRoundTrip ==
    /\ stage = "idle"
    /\ \E ev \in RoundTripEvents : \E outcomes \in OutcomeSeqs :
          LambdaHandler(ev, outcomes, MaxStored + 1)

\* the caller sends the event just answered once more and the store works
InvokeAgain ==
    /\ stage # "idle"
    /\ LambdaHandler(event, AllOk, MaxStored + 1)

NextRoundTrip == InvokeRoundTrip \/ NextInvocation \/ InvokeAgain

SpecRoundTrip == InitRoundTrip /\ [][NextRoundTrip]_vars

(***************************************************************************)
(* The logger specification: calls of the logger with nested field maps    *)
(***************************************************************************)
\* nesting depth of the field maps
MaxDepth == 3

LogKeys ==
    {<<"p", "a", "s", "s", "w", "o", "r", "d">>,
     <<"a", "p", "i", "_", "k", "e", "y">>,
     <<"t", "o", "k", "e", "n">>,
     <<"s", "e", "c", "r", "e", "t">>,
     <<"T", "o", "k", "e", "n">>,
     <<"k", "e", "y">>,
     <<"a", "p", "i", "k", "e", "y">>,
     <<"u", "s", "e", "r">>}

\* the value that must not be written, and a harmless one
SecretValue == LStr(<<"s">>)

PlainValue == LStr(<<"p">>)

\* the values nested at most d deep: one-item dicts and lists
RECURSIVE LogTrees(_)
LogTrees(d) ==
    IF d = 0 THEN {SecretValue, PlainValue}
    ELSE {SecretValue, PlainValue}
         \cup {LDict(<<[key |-> k, val |-> v]>>) :
                  k \in LogKeys, v \in LogTrees(d - 1)}
         \cup {LList(<<v>>) : v \in LogTrees(d - 1)}

InitLog ==
    /\ cfg = DbSet @@ [API_KEYS_STR |-> <<"a">>]
    /\ event = NoEvent
    /\ stage = "idle"
    /\ response = NoResponse
    /\ authTrace = NoAuth
    /\ valTrace = NoVal
    /\ execTrace = NoExec
    /\ uuids = 0
    /\ db_client = FALSE
    /\ connection = "none"
    /\ access_logs = <<>>
    /\ error_logs = <<>>
    /\ last_stored = NothingStored
    /\ emitted = NoRecord
    /\ threads = NoThreads
    /\ uncommitted = <<>>
    /\ lastrowid = 0

\* logger.info(message, **kwargs)
Log(level, kwargs) ==
    /\ ~emitted.called
    /\ emitted' = [called |-> TRUE, kwargs |-> kwargs,
                   record |-> log(level, "m", kwargs)]
    /\ UNCHANGED <<cfg, event, stage, response, authTrace, valTrace, execTrace,
                   uuids, db_client, connection, access_logs, error_logs,
                   last_stored, threads, uncommitted, lastrowid>>

\* the stream handler has written the line; the logger takes the next call
Written ==
    /\ emitted.called
    /\ emitted' = NoRecord
    /\ UNCHANGED <<cfg, event, stage, response, authTrace, valTrace, execTrace,
                   uuids, db_client, connection, access_logs, error_logs,
                   last_stored, threads, uncommitted, lastrowid>>

LogCall ==
    \E level \in {"info"} :
        \E kwargs \in {v \in LogTrees(MaxDepth) : v.t = "dict"} :
            Log(level, kwargs)

NextLog == LogCall \/ Written

SpecLog == InitLog /\ [][NextLog]_vars

(***************************************************************************)
(* The interleaving specification: two invocations of one instance that    *)
(* share the DatabaseClient and its connection, each a store_access_log or *)
(* a get_traffic_summary call taken one pymysql call at a time, and other  *)
(* instances that insert into access_logs over connections of their own.   *)
(***************************************************************************)
\* calls of the two invocation threads together, and inserts by other
\* instances
MaxCalls == 2

MaxOther == 1

\* the rows stored: a failed login and a page served
ThreadFields == {AccessLogParams, [AccessLogParams EXCEPT !.status_code = JInt(200)]}

\* the columns of these rows as access_logs holds them
ThreadRows ==
    {StoredRow(AccessColumnTypes, AccessRow(ParamsWith(f))) : f \in ThreadFields}

\* the instance is warm or cold, and access_logs is empty or holds a row
\* that another instance stored
InitInterleaved ==
    /\ cfg = DbSet @@ [API_KEYS_STR |-> <<"a">>]
    /\ event = NoEvent
    /\ stage = "idle"
    /\ response = NoResponse
    /\ authTrace = NoAuth
    /\ valTrace = NoVal
    /\ execTrace = NoExec
    /\ uuids = 0
    /\ db_client = FALSE
    /\ connection = "none"
    /\ access_logs \in {<<>>} \cup {<<[id |-> 1, cols |-> r, by |-> 0]>> :
                                       r \in ThreadRows}
    /\ lastrowid = Len(access_logs)
    /\ error_logs = <<>>
    /\ last_stored = NothingStored
    /\ emitted = NoRecord
    /\ threads = NoThreads
    /\ uncommitted = <<>>

\* statements of the handler: one INSERT, or the four SELECTs of the summary
StatementsOf(intent) == IF intent = "store_access_log" THEN 1 ELSE 4

\* the rows a statement on the shared connection sees: the committed rows
\* and the rows of the connection's own open transaction
Visible == access_logs \o uncommitted

\* COUNT(*) ... status_code >= 400
CountErrors(rows) ==
    Cardinality({i \in DOMAIN rows : ColumnOf(rows[i], "status_code").n >= 400})

\* round(error_count / total_requests * 100, 2) if total_requests > 0 else
\* 0, in hundredths (no quotient of the counts explored lies halfway)
ErrorRate(error_count, total_requests) ==
    IF total_requests > 0
    THEN (2 * error_count * 10000 + total_requests) \div (2 * total_requests)
    ELSE 0

\* a conn.commit() that leaves the transaction open
commit_Nothing(table, tx) == table

\* conn.commit(): the rows of the connection's transaction become durable
commit(table, tx) == table \o tx

\* the other thread is inside a call
Busy(t) == \E u \in Threads \ {t} : threads[u].pc # "idle"

\* the calls begun so far
Begun ==
    threads[1].calls + threads[2].calls
    + Cardinality({u \in Threads : threads[u].pc # "idle"})

\* lambda_handler is entered on thread t: get_db_client() returns the one
\* DatabaseClient of the instance
Call(t, intent, cols) ==
    /\ threads[t].pc = "idle"
    /\ Begun < MaxCalls
    /\ threads' = [u \in Threads |->
                     IF u = t
                     THEN [NoThread EXCEPT !.pc = "connection",
                                           !.calls = threads[t].calls,
                                           !.intent = intent, !.cols = cols,
                                           !.stmt = 1, !.overlapped = Busy(t)]
                     ELSE [threads[u] EXCEPT
                              !.overlapped = @ \/ threads[u].pc # "idle"]]
    /\ db_client' = get_db_client(db_client).client
    /\ UNCHANGED <<cfg, event, stage, response, authTrace, valTrace, execTrace,
                   uuids, connection, access_logs, error_logs, last_stored,
                   emitted, uncommitted, lastrowid>>

\* conn = self._get_connection()
GetConnection(t, o) ==
    /\ threads[t].pc = "connection"
    /\ \E c \in {get_connection(connection, o)} :
          /\ connection' = c.conn
          /\ threads' = [threads EXCEPT
                            ![t].pc = IF c.raised THEN "raised" ELSE "execute"]
    /\ UNCHANGED <<cfg, event, stage, response, authTrace, valTrace, execTrace,
                   uuids, db_client, access_logs, error_logs, last_stored,
                   emitted, uncommitted, lastrowid>>

\* cursor.execute(query, params) of the statement the thread is at
Execute(t, o) ==
    /\ threads[t].pc = "execute"
    /\ IF o # "ok"
       THEN /\ threads' = [threads EXCEPT ![t].pc = "rollback"]
            /\ UNCHANGED <<uncommitted, lastrowid>>
       ELSE IF threads[t].intent = "store_access_log"
       THEN /\ lastrowid' = lastrowid + 1
            /\ uncommitted' = Append(uncommitted,
                                     [id |-> lastrowid + 1,
                                      cols |-> threads[t].cols, by |-> t])
            /\ threads' = [threads EXCEPT ![t].pc = "commit",
                                          ![t].id = lastrowid + 1]
       ELSE /\ threads' = [threads EXCEPT
                             ![t].pc = "commit",
                             ![t].total = IF threads[t].stmt = 1
                                          THEN Len(Visible) ELSE @,
                             ![t].errors = IF threads[t].stmt = 2
                                           THEN CountErrors(Visible) ELSE @]
            /\ UNCHANGED <<uncommitted, lastrowid>>
    /\ UNCHANGED <<cfg, event, stage, response, authTrace, valTrace, execTrace,
                   uuids, db_client, connection, access_logs, error_logs,
                   last_stored, emitted>>

\* conn.commit() after the yield of _get_cursor
Commit(t, o) ==
    /\ threads[t].pc = "commit"
    /\ IF o # "ok"
       THEN /\ threads' = [threads EXCEPT ![t].pc = "rollback"]
            /\ UNCHANGED <<access_logs, uncommitted>>
       ELSE /\ access_logs' = commit(access_logs, uncommitted)
            /\ uncommitted' = <<>>
            /\ threads' = [threads EXCEPT
                             ![t].pc = IF threads[t].stmt
                                           < StatementsOf(threads[t].intent)
                                       THEN "connection" ELSE "return",
                             ![t].stmt = @ + 1]
    /\ UNCHANGED <<cfg, event, stage, response, authTrace, valTrace, execTrace,
                   uuids, db_client, connection, error_logs, last_stored,
                   emitted, lastrowid>>

\* except Exception: conn.rollback(); raise
Rollback(t) ==
    /\ threads[t].pc = "rollback"
    /\ uncommitted' = <<>>
    /\ threads' = [threads EXCEPT ![t].pc = "raised", ![t].rollbacks = @ + 1]
    /\ UNCHANGED <<cfg, event, stage, response, authTrace, valTrace, execTrace,
                   uuids, db_client, connection, access_logs, error_logs,
                   last_stored, emitted, lastrowid>>

\* the handler returns its result: {'success': True, 'data': ...} after its
\* last statement, {'success': False, ...} from its except clause
Return(t) ==
    /\ threads[t].pc \in {"return", "raised"}
    /\ threads' = [threads EXCEPT
                     ![t].pc = "idle",
                     ![t].calls = @ + 1,
                     ![t].returned = TRUE,
                     ![t].success = threads[t].pc = "return",
                     ![t].error_rate = ErrorRate(threads[t].errors,
                                                 threads[t].total)]
    /\ UNCHANGED <<cfg, event, stage, response, authTrace, valTrace, execTrace,
                   uuids, db_client, connection, access_logs, error_logs,
                   last_stored, emitted, uncommitted, lastrowid>>

\* another instance stores an access log over its own connection
OtherInstance(cols) ==
    /\ Cardinality({i \in DOMAIN access_logs : access_logs[i].by = 0}) < MaxOther
    /\ lastrowid' = lastrowid + 1
    /\ access_logs' = Append(access_logs,
                             [id |-> lastrowid + 1, cols |-> cols, by |-> 0])
    /\ UNCHANGED <<cfg, event, stage, response, authTrace, valTrace, execTrace,
                   uuids, db_client, connection, error_logs, last_stored,
                   emitted, threads, uncommitted>>

Calls ==
    \E t \in Threads :
        \/ Call(t, "get_traffic_summary", <<>>)
        \/ \E r \in ThreadRows : Call(t, "store_access_log", r)

Steps ==
    \E t \in Threads :
        \/ \E o \in {"ok", "connect_fail"} :
              (o = "connect_fail" => connection = "none") /\ GetConnection(t, o)
        \/ \E o \in {"ok", "execute_fail"} : Execute(t, o)
        \/ \E o \in {"ok", "commit_fail"} : Commit(t, o)
        \/ Rollback(t)
        \/ Return(t)

OtherInstances == \E r \in ThreadRows : OtherInstance(r)

NextInterleaved == Calls \/ Steps \/ OtherInstances

SpecInterleaved == InitInterleaved /\ [][NextInterleaved]_vars

(***************************************************************************)
(* The threat specification: store_access_log and get_security_threats     *)
(* calls against a table that holds any rows stored earlier                *)
(***************************************************************************)
\* a record of a request made with curl
CurlFields ==
    [AccessLogParams EXCEPT !.timestamp = Datetime2, !.ip_address = IpAddr2]
    @@ [user_agent |-> JStr(<<"c", "u", "r", "l", "/", "8">>)]

ThreatEvents ==
    {PostOf("store_access_log", f) :
        f \in {[AccessLogParams EXCEPT !.timestamp = t] :
                  t \in {Timestamp, Datetime2}} \cup {CurlFields}}
    \cup {PostOf("get_security_threats", f) :
             f \in {<<>>, [start_time |-> Datetime2], [end_time |-> Timestamp],
                    [start_time |-> Timestamp, end_time |-> Datetime2]}}

\* store outcomes explored: all goes well, or one of the first two units of
\* work fails
ThreatOutcomes ==
    {AllOk, [AllOk EXCEPT ![1] = "commit_fail"],
     [AllOk EXCEPT ![2] = "execute_fail"]}

InvokeThreats ==
    /\ stage = "idle"
    /\ \E ev \in ThreatEvents : \E outcomes \in ThreatOutcomes :
          LambdaHandler(ev, outcomes, MaxStored + 1)

NextThreats == InvokeThreats \/ NextInvocation

SpecThreats == InitRoundTrip /\ [][NextThreats]_vars

(***************************************************************************)
(* The authentication specification: authenticate_request called on its    *)
(* own, under every configured key string up to MaxKeysStrLen              *)
(***************************************************************************)
\* all strings over the alphabet A of length at most n
RECURSIVE StrsUpTo(_, _)
StrsUpTo(A, n) ==
    IF n = 0 THEN {<<>>}
    ELSE LET shorter == StrsUpTo(A, n - 1)
         IN  shorter \cup {Append(str, c) : str \in shorter, c \in A}

KeyAlphabet == {"a", "E2", ",", " "}

HeaderAlphabet == {"a", "b", "E2", " "}

AuthConfigs ==
    {DbSet @@ [API_KEYS_STR |-> k] : k \in StrsUpTo(KeyAlphabet, MaxKeysStrLen)}

AuthHeaderVals == {None} \cup {Some(v) : v \in StrsUpTo(HeaderAlphabet, MaxHeaderLen)}

\* one header name carries any value, the others a few
AuthHeaders ==
    {h \in [HeaderNames -> AuthHeaderVals] :
        \E n \in HeaderNames :
            \A o \in HeaderNames \ {n} : h[o] \in {None, Some(<<"a">>)}}

InitAuth ==
    /\ cfg \in AuthConfigs
    /\ event = NoEvent
    /\ stage = "idle"
    /\ response = NoResponse
    /\ authTrace = NoAuth
    /\ valTrace = NoVal
    /\ execTrace = NoExec
    /\ uuids = 0
    /\ db_client = FALSE
    /\ connection = "none"
    /\ access_logs = <<>>
    /\ error_logs = <<>>
    /\ last_stored = NothingStored
    /\ emitted = NoRecord
    /\ threads = NoThreads
    /\ uncommitted = <<>>
    /\ lastrowid = 0

\* authenticate_request(headers)
AuthenticateRequest(headers) ==
    /\ stage = "idle"
    /\ authTrace' = authenticate_request(cfg, headers)
    /\ stage' = "auth"
    /\ UNCHANGED <<cfg, event, response, valTrace, execTrace, uuids, db_client,
                   connection, access_logs, error_logs, last_stored, emitted,
                   threads, uncommitted, lastrowid>>

Authenticate == \E headers \in AuthHeaders : AuthenticateRequest(headers)

NextAuth == Authenticate \/ NextInvocation

SpecAuth == InitAuth /\ [][NextAuth]_vars

(***************************************************************************)
(* Properties                                                              *)
(***************************************************************************)
\* the body and the method lambda_handler works with
BodyStr(ev) == IF CharLen(ev.body.text) = 0 THEN DefaultBody ELSE ev.body

HttpMethod(ev) == IF ev.httpMethod = "absent" THEN "POST" ELSE ev.httpMethod

ConfigOk == ~ConfigValidateRaises(cfg)

Answered == stage # "idle"

StatusCodes == {200, 400, 401, 405, 500}

\* C1: every invocation returns one response whose status is that of the
\* stage that ended it: 500 for an invalid configuration, 401 for a failed
\* authentication, 405 for a method other than POST, 400 for a rejection by
\* validate_request, 500 for a handler result with success = false, and 200
\* exactly when the handler result has success = true; no other status occurs.
C1_StatusByStage ==
    Answered =>
        LET st == response.statusCode
        IN  /\ st \in StatusCodes
            /\ ~ConfigOk => st = 500
            /\ (ConfigOk /\ ~authTrace.ok) => st = 401
            /\ (ConfigOk /\ authTrace.ok /\ HttpMethod(event) # "POST") => st = 405
            /\ (valTrace.called /\ valTrace.st = "reject") => st = 400
            /\ (execTrace # NoExec /\ ~response.body.success) => st = 500
            /\ st = 200 <=> (execTrace # NoExec /\ response.body.has_success
                              /\ response.body.success)

\* a handler ran, a statement failed, and the call was answered 500
C1_Witness ==
    /\ stage = "execute"
    /\ execTrace.stmts # <<>>
    /\ ~response.body.success
    /\ response.statusCode = 500

\* C2 as claimed: a call whose method is not POST is answered 405 whatever its
\* credential (the method is decided before the credential).
C2_MethodBeforeAuth ==
    (Answered /\ ConfigOk /\ HttpMethod(event) # "POST")
        => response.statusCode = 405

\* C2 amended: the credential is decided before the method: a call whose
\* method is not POST is answered 401 when its credential is missing or
\* invalid, and 405 only when its credential is valid.
C2_AuthBeforeMethod ==
    (Answered /\ ConfigOk /\ HttpMethod(event) # "POST")
        => /\ authTrace.called
           /\ response.statusCode = IF authTrace.ok THEN 405 ELSE 401
           /\ ~valTrace.called

\* a GET without a valid credential was answered 401
C2_Witness ==
    /\ stage = "auth"
    /\ event.httpMethod = "GET"
    /\ ~authTrace.ok
    /\ response.statusCode = 401

RejectStages == {"config", "auth", "method", "validation", "unexpected"}

IntentWhitelisted(ev) ==
    /\ BodyStr(ev).doc.kind = "dict"
    /\ BodyStr(ev).doc.intent.t = "str"
    /\ BodyStr(ev).doc.intent.name \in ALLOWED_INTENTS

\* C3: a call that ends at the configuration, authentication, method or
\* validation stage runs no handler, never calls get_db_client or
\* _get_connection, and leaves the client and the tables as they were; every
\* call whose intent is not whitelisted ends at one of these stages.
C3_RejectedTouchesNothing ==
    [][(stage = "idle" /\ stage' # "idle") =>
          /\ stage' \in RejectStages =>
                /\ execTrace' = NoExec
                /\ UNCHANGED <<connection, access_logs, error_logs>>
          /\ ~IntentWhitelisted(event') => stage' \in RejectStages]_vars

\* an authenticated POST with intent drop_table was rejected while the
\* instance held a connection and the store held a row
C3_Witness ==
    /\ stage = "validation"
    /\ authTrace.ok
    /\ event.body.doc.intent = StrIntent("drop_table")
    /\ response.statusCode = 400
    /\ connection = "open"
    /\ access_logs # <<>>

PayloadTooLarge(size) ==
    ErrN("Payload too large: {size} bytes (max: {max_size} bytes)",
         <<size, MAX_PAYLOAD_SIZE>>)

\* C4: a body whose UTF-8 encoding is longer than MAX_PAYLOAD_SIZE bytes is
\* rejected by validate_request (status 400, the message names the actual and
\* the maximum size) and json.loads is not called; a body of exactly
\* MAX_PAYLOAD_SIZE bytes passes the size check and is parsed.
C4_OversizeRejectedUnparsed ==
    valTrace.called =>
        LET size == ByteLen(BodyStr(event).text)
        IN  /\ size > MAX_PAYLOAD_SIZE =>
                  /\ valTrace.st = "reject"
                  /\ valTrace.err = PayloadTooLarge(size)
                  /\ ~valTrace.parsed
                  /\ response.statusCode = 400
                  /\ response.body.error = PayloadTooLarge(size)
            /\ size <= MAX_PAYLOAD_SIZE =>
                  /\ valTrace.step # "size"
                  /\ valTrace.parsed

\* a body of multi-byte characters: fewer characters than the maximum, more
\* bytes than the maximum, rejected unparsed
C4_Witness ==
    /\ valTrace.called
    /\ CharLen(event.body.text) <= MAX_PAYLOAD_SIZE
    /\ ByteLen(event.body.text) > MAX_PAYLOAD_SIZE
    /\ ~valTrace.parsed
    /\ response.statusCode = 400

\* a limit that denotes a positive integer of at most MAX_QUERY_LIMIT: an
\* integer, or the decimal text of one (validate_limit documents both)
IsValidLimit(v) ==
    \/ v.t = "int" /\ 1 <= v.n /\ v.n <= MAX_QUERY_LIMIT
    \/ /\ v.t = "str"
       /\ IntOfStr(v.s).exc = "none"
       /\ 1 <= IntOfStr(v.s).v
       /\ IntOfStr(v.s).v <= MAX_QUERY_LIMIT

\* the limit member of the params of a whitelisted request, JAbsent if none
LimitOf(ev) ==
    IF IntentWhitelisted(ev) /\ BodyStr(ev).doc.params.kind = "dict"
    THEN BodyStr(ev).doc.params.m["limit"]
    ELSE JAbsent

\* C5 as claimed: an authenticated POST for a whitelisted intent whose params
\* contain a limit that is not a positive integer of at most MAX_QUERY_LIMIT
\* is answered 400 and no statement is sent; no handler ever falls back to
\* 100 for an invalid limit.
C5_BadLimitRejected ==
    /\ (valTrace.called /\ valTrace.step # "size"
        /\ LimitOf(event).t \notin {"absent", "null"}
        /\ ~IsValidLimit(LimitOf(event)))
           => /\ response.statusCode = 400
              /\ execTrace.stmts = <<>>
    /\ ~execTrace.fallback

NoCredential(headers) ==
    \A n \in HeaderNames : ~headers[n].some \/ Strip(headers[n].s) = <<>>

\* C6: a call whose headers carry no credential (absent, empty or whitespace
\* only) is answered 401 with the error "Unauthorized: Invalid or missing API
\* key", and Config.get_api_keys is not read by that authentication attempt.
C6_NoCredential401 ==
    (Answered /\ ConfigOk /\ NoCredential(event.headers))
        => /\ response.statusCode = 401
           /\ response.body.has_error
           /\ response.body.error = Err(UnauthorizedMsg)
           /\ authTrace.called
           /\ ~authTrace.keysRead
           /\ authTrace.cmps = <<>>

\* a header of whitespace only was answered 401
C6_Witness ==
    /\ stage = "auth"
    /\ event.headers["x-api-key"] = Some(<<" ">>)
    /\ NoCredential(event.headers)
    /\ response.statusCode = 401
    /\ ~authTrace.keysRead

\* the configured credential set, read off the API_KEYS string: the trimmed
\* non-empty text of every maximal comma-free stretch
ConfiguredSet(c) ==
    LET str == c.API_KEYS_STR
        n   == Len(str)
    IN  {Strip(SubSeq(str, i, j)) :
            <<i, j>> \in {p \in (1..n + 1) \X (0..n) :
                /\ p[1] <= p[2] + 1
                /\ p[1] = 1 \/ str[p[1] - 1] = ","
                /\ p[2] = n \/ str[p[2] + 1] = ","
                /\ \A k \in p[1]..p[2] : str[k] # ","}} \ {<<>>}

\* the credential a request presents: the first non-empty of the two header
\* spellings the gateway reads, trimmed
Presented(headers) ==
    IF headers["x-api-key"].some /\ headers["x-api-key"].s # <<>>
    THEN Strip(headers["x-api-key"].s)
    ELSE IF headers["X-Api-Key"].some THEN Strip(headers["X-Api-Key"].s)
    ELSE <<>>

\* C7: authenticate_request returns (True, None) if and only if the trimmed
\* presented credential is non-empty and equals an entry of the configured
\* credential set; otherwise, also when the set is empty, it returns
\* (False, message).
C7_AuthIffConfiguredKey ==
    authTrace.called =>
        LET p == Presented(authTrace.headers)
        IN  /\ authTrace.ok <=> (p # <<>> /\ p \in ConfiguredSet(cfg))
            /\ authTrace.msg = IF authTrace.ok THEN "None" ELSE UnauthorizedMsg

\* a padded credential matched the second configured key
C7_Witness ==
    /\ authTrace.called
    /\ authTrace.ok
    /\ Len(authTrace.cmps) = 2
    /\ \E n \in HeaderNames :
          authTrace.headers[n].some /\ authTrace.headers[n].s # authTrace.api_key.s

\* C8 as claimed: whatever the capitalisation of the header name x-api-key, a
\* request whose only key header carries a configured credential is
\* authenticated.
C8_AnyCapitalisation ==
    authTrace.called =>
        \A n \in HeaderNames :
            (/\ \A o \in HeaderNames \ {n} : ~authTrace.headers[o].some
             /\ authTrace.headers[n].some
             /\ Strip(authTrace.headers[n].s) \in ConfiguredSet(cfg))
                => authTrace.ok

SameLengths(c, d) ==
    /\ Len(c.a) = Len(d.a)
    /\ Len(c.b) = Len(d.b)
    /\ Len(Encode(c.a)) = Len(Encode(d.a))
    /\ Len(Encode(c.b)) = Len(Encode(d.b))

\* C9: the work of a credential comparison depends on the lengths of its
\* operands only: strings of different length are not compared at all,
\* strings of equal length are compared over every byte of the configured
\* key, wherever the first difference is; two comparisons whose operands have
\* the same lengths do the same work.
C9_WorkDependsOnLengthOnly ==
    /\ \A i \in 1..Len(authTrace.cmps) :
          LET c == authTrace.cmps[i]
          IN  c.work = IF Len(c.a) # Len(c.b) THEN 0 ELSE Len(Encode(c.b))
    /\ \A i, j \in 1..Len(authTrace.cmps) :
          SameLengths(authTrace.cmps[i], authTrace.cmps[j])
              => authTrace.cmps[i].work = authTrace.cmps[j].work

\* two strings of equal length that differ in their first byte were compared
\* to the end
C9_Witness ==
    \E i \in 1..Len(authTrace.cmps) :
        LET c == authTrace.cmps[i]
        IN  /\ Len(c.a) = Len(c.b)
            /\ Len(Encode(c.a)) = Len(Encode(c.b))
            /\ Len(c.a) >= 2
            /\ c.a[1] # c.b[1]
            /\ ~c.eq
            /\ c.work = Len(Encode(c.b))

\* C10 as claimed: once validate_request has accepted a request,
\* execute_intent finds a handler for its intent.
C10_ValidatedIntentHasHandler ==
    (valTrace.called /\ valTrace.st = "ok") => ~execTrace.no_handler

\* the mandatory fields of the store intents, in the documented order
Mandatory(intent) ==
    CASE intent = "store_error_log" ->
             <<"timestamp", "log_level", "error_code", "error_message">>
      [] intent = "store_access_log" ->
             <<"timestamp", "ip_address", "method", "endpoint", "status_code">>
      [] OTHER -> <<>>

\* is the field k absent from params?
FieldAbsent(params, k) ==
    CASE params.kind = "dict" -> params.m[k].t = "absent"
      [] params.kind \in {"list", "str"} -> k \notin params.has
      [] OTHER -> TRUE

\* the mandatory fields absent from params, in order
AbsentFields(intent, params) ==
    SelectSeq(Mandatory(intent), LAMBDA k : FieldAbsent(params, k))

\* the call reached the parameter check of a store intent and a mandatory
\* field is absent from its params
StoreFieldMissing ==
    /\ valTrace.called
    /\ valTrace.step \in {"params", "done"}
    /\ AbsentFields(BodyStr(event).doc.intent.name,
                    ParamsOf(BodyStr(event).doc)) # <<>>

MissingFieldMsg(ev) ==
    Err("Missing required field: "
        \o Head(AbsentFields(BodyStr(ev).doc.intent.name, ParamsOf(BodyStr(ev).doc))))

\* C11 as claimed: a store call whose params mapping lacks a mandatory field
\* is answered 400 with the error "Missing required field: <name>" naming the
\* first absent field, whatever else the mapping holds, and no insert is
\* executed.
C11_MissingFieldNamed ==
    (StoreFieldMissing /\ ParamsOf(BodyStr(event).doc).kind = "dict") =>
        /\ response.statusCode = 400
        /\ response.body.error = MissingFieldMsg(event)
        /\ execTrace = NoExec

\* C11 amended: a store call with an absent mandatory field never runs its
\* handler (no insert) and is never answered 200; when its params are a
\* mapping whose limit is absent or accepted by validate_limit it is answered
\* 400 with "Missing required field: <name>" naming the first absent field
\* in the documented order; when validate_limit rejects the limit, the call
\* is answered 400 with the limit's message instead (the limit is checked
\* before the mandatory fields).
C11_MissingFieldAfterLimit ==
    StoreFieldMissing =>
        LET params == ParamsOf(BodyStr(event).doc)
            limit  == params.m["limit"]
        IN  /\ execTrace = NoExec
            /\ response.statusCode # 200
            /\ (params.kind = "dict"
                /\ (limit.t = "absent" \/ validate_limit(limit).st = "ok"))
                   => /\ response.statusCode = 400
                      /\ response.body.error = MissingFieldMsg(event)
            /\ (params.kind = "dict" /\ limit.t # "absent"
                /\ validate_limit(limit).st = "reject")
                   => /\ response.statusCode = 400
                      /\ response.body.error = validate_limit(limit).err

\* a store_access_log call lacking two mandatory fields was answered 400
\* naming the first of them
C11_Witness ==
    /\ StoreFieldMissing
    /\ Len(AbsentFields(event.body.doc.intent.name, event.body.doc.params)) = 2
    /\ response.statusCode = 400
    /\ response.body.error = Err("Missing required field: ip_address")

\* the typed params of the claim C12
TypedFilterKeys ==
    {"start_time", "end_time", "severity_score", "status_code", "ip_address"}

\* a value that does not meet the schema of the param k: a timestamp that is
\* not a string of at least 10 characters, an address that is not four
\* numbers of 0..255, a status outside 100..599, a non-numeric severity
Malformed(k, v) ==
    CASE v.t \in {"absent", "null"} -> FALSE
      [] k \in {"start_time", "end_time"} -> v.t # "str" \/ Len(v.s) < 10
      [] k = "ip_address" -> validate_ip_address(v).st # "ok"
      [] k = "status_code" ->
             PyInt(v).exc # "none" \/ PyInt(v).v < 100 \/ PyInt(v).v > 599
      [] k = "severity_score" -> PyInt(v).exc # "none"
      [] OTHER -> FALSE

\* the call reached the parameter check with a params mapping in which a
\* typed param the handler of its intent filters on is malformed
MalformedFilterParam ==
    /\ valTrace.called
    /\ valTrace.step \in {"params", "done"}
    /\ BodyStr(event).doc.intent.name \in INTENT_HANDLERS
    /\ ParamsOf(BodyStr(event).doc).kind = "dict"
    /\ \E i \in 1..Len(InKeys(BodyStr(event).doc.intent.name)) :
          LET k == InKeys(BodyStr(event).doc.intent.name)[i]
              v == ParamsOf(BodyStr(event).doc).m[k]
          IN  k \in TypedFilterKeys /\ JTruthy(v) /\ Malformed(k, v)

\* C12 as claimed: a malformed value of a typed filter param ends the call
\* with 400 before the handler runs, and every typed value found in a
\* handler's query filter meets the schema of its param.
C12_FilterValuesChecked ==
    /\ MalformedFilterParam =>
          /\ response.statusCode = 400
          /\ execTrace = NoExec
    /\ \A i \in 1..Len(execTrace.filter) :
          execTrace.filter[i].key \in TypedFilterKeys
              => ~Malformed(execTrace.filter[i].key, execTrace.filter[i].val)

\* the body parsed as JSON but is not an object, or is an object with a
\* whitelisted intent whose params member is not a mapping
NotAnEnvelope(ev) ==
    \/ BodyStr(ev).doc.kind \notin {"dict", "error"}
    \/ /\ IntentWhitelisted(ev)
       /\ ParamsOf(BodyStr(ev).doc).kind # "dict"

\* C13 as claimed: a body that is valid JSON but not an object, or whose
\* params member is not a mapping, is rejected by validate_request and the
\* call is answered 400 with the rejection message, not 500.
C13_NonObjectRejected ==
    (valTrace.called /\ valTrace.parsed /\ NotAnEnvelope(event))
        => /\ valTrace.st = "reject"
           /\ response.statusCode = 400
           /\ response.body.error = valTrace.err

\* the five fixed response headers
FixedHeaders ==
    {"Content-Type", "X-Content-Type-Options", "X-Frame-Options",
     "X-XSS-Protection", "Strict-Transport-Security"}

\* C14: every response, whatever its outcome, carries the five fixed headers
\* and a body request_id equal to the identifier that uuid4 returned at the
\* start of that invocation; the identifier is the next result of uuid4,
\* whatever the event is, and differs from the identifier of every earlier
\* invocation of the process.
C14_HeadersAndFreshRequestId ==
    /\ [](Answered =>
            /\ DOMAIN response.headers = FixedHeaders
            /\ response.headers["X-Content-Type-Options"] = "nosniff"
            /\ response.headers["X-Frame-Options"] = "DENY"
            /\ response.body.has_request_id
            /\ response.body.request_id = uuids)
    /\ [][(stage = "idle" /\ stage' # "idle") =>
            /\ uuids' = uuids + 1
            /\ response'.body.request_id = uuids'
            /\ response'.body.request_id \notin 1..uuids]_vars

\* the second invocation of a process ended in the outer except clause and
\* its response carries the second identifier
C14_Witness ==
    /\ stage = "unexpected"
    /\ uuids = 2
    /\ response.statusCode = 500
    /\ response.body.request_id = 2
    /\ DOMAIN response.headers = FixedHeaders

\* C15 as claimed: every response body contains request_id, a boolean
\* success, and exactly one of data (when success is true) or error (when
\* success is false), for all outcomes.
C15_EnvelopeShape ==
    Answered =>
        /\ response.body.has_request_id
        /\ response.body.has_success
        /\ response.body.has_data # response.body.has_error
        /\ response.body.has_data <=> response.body.success

\* the generic messages of the eight handlers
GenericMessages ==
    {"Failed to retrieve access logs", "Failed to retrieve error logs",
     "Failed to store access log", "Failed to store error log",
     "Failed to retrieve traffic summary", "Failed to detect security threats",
     "Failed to retrieve performance metrics", "Failed to detect anomalies"}

\* a unit of work of the last invocation raised
StoreFailed ==
    /\ execTrace.stmts # <<>>
    /\ ~execTrace.stmts[Len(execTrace.stmts)].returned

\* C16: when the store raises during a handler's execution (at connect,
\* execute, commit or rollback), the handler returns success = false with an
\* error that is one of the fixed generic messages and depends on the
\* handler only; the text of the exception is not in the body, which has no
\* data, and the call is answered 500.
C16_StoreFailureGeneric ==
    StoreFailed =>
        /\ execTrace.caught # ""
        /\ response.statusCode = 500
        /\ response.body.has_success /\ ~response.body.success
        /\ response.body.has_error /\ ~response.body.has_data
        /\ response.body.error.text \in GenericMessages
        /\ response.body.error = Err(HandlerError(execTrace.handler, ""))
        /\ response.body.error.text # execTrace.caught
        /\ response.body.id = 0

\* the commit of an insert failed and the caller got the generic message
C16_Witness ==
    /\ StoreFailed
    /\ execTrace.handler = "store_access_log"
    /\ execTrace.stmts[1].outcome = "commit_fail"
    /\ response.statusCode = 500
    /\ response.body.error = Err("Failed to store access log")

\* the liveness ping of a unit of work fails (when a connection is held)
PingFails(o) == o \in {"reconnect", "connect_fail"}

\* what _get_connection did in the unit u agrees with the claim C17
ConnectionDiscipline(u) ==
    /\ u.conn_before = "none" => (~u.pinged /\ u.connected)
    /\ u.conn_before = "open" => u.pinged
    /\ (u.conn_before = "open" /\ ~PingFails(u.outcome))
          => (~u.connected /\ u.conn = "open")
    /\ (u.conn_before = "open" /\ u.outcome = "reconnect")
          => (u.connected /\ u.conn = "open" /\ u.returned)
    /\ u.connected => (u.conn_before = "none" \/ PingFails(u.outcome))
    /\ u.outcome = "connect_fail"
          => (u.connected /\ u.conn = "none" /\ u.raised = "connect"
              /\ u.sent = 0)
    /\ u.outcome # "connect_fail" => u.conn = "open"

FirstRaise(u) ==
    CASE u.outcome \in {"execute_fail", "conn_lost"} -> "execute"
      [] u.outcome = "commit_fail" -> "commit"
      [] OTHER -> "none"

\* C18 as claimed: a unit of work that returns normally has committed; when
\* cursor.execute or commit raises, rollback is called before the exception
\* reaches the caller, the exception that reaches the caller is the one that
\* was raised, and the tables keep no effect of the failed statement.
C18_Transactional ==
    [][(stage = "idle" /\ stage' # "idle") =>
          /\ \A i \in 1..Len(execTrace'.stmts) :
                LET u == execTrace'.stmts[i]
                IN  /\ u.returned => (u.committed /\ u.rollbacks = 0)
                    /\ FirstRaise(u) # "none" =>
                          /\ ~u.returned /\ ~u.committed
                          /\ u.rollbacks = 1
                          /\ u.raised = FirstRaise(u)
          /\ (execTrace'.stmts # <<>>
              /\ ~execTrace'.stmts[Len(execTrace'.stmts)].returned)
                => UNCHANGED <<access_logs, error_logs>>]_vars

\* C19: nothing is retried.  In one invocation every statement of the
\* handler is sent to the store at most once (whatever DB_MAX_RETRIES is), a
\* connect is attempted at most once per unit of work, the statement that
\* failed is the last one the handler issued, and the failure yields the one
\* response of the call, a 500 with success = false.
C19_NoRetries ==
    Answered =>
        LET st == execTrace.stmts
        IN  /\ \A i \in 1..Len(st) :
                  /\ st[i].sent <= 1
                  /\ st[i].commits <= 1
                  /\ st[i].rollbacks <= 1
                  /\ i < Len(st) => st[i].returned
                  /\ \A j \in 1..Len(st) : i # j => st[i].sql # st[j].sql
            /\ Len(st) <= MaxStatements
            /\ StoreFailed =>
                  /\ response.statusCode = 500
                  /\ response.body.has_success /\ ~response.body.success

\* the second statement of a traffic summary failed at execute after the
\* first one went through: it was sent once and the other two never
C19_Witness ==
    /\ Answered
    /\ execTrace.handler = "get_traffic_summary"
    /\ Len(execTrace.stmts) = 2
    /\ execTrace.stmts[1].returned
    /\ execTrace.stmts[2].outcome = "execute_fail"
    /\ execTrace.stmts[2].sent = 1
    /\ response.statusCode = 500

\* a get_access_logs call filtered by the address of the record F that the
\* last successful store_access_log stored, and by nothing else, succeeded
GetByStoredAddress ==
    /\ Answered
    /\ execTrace.handler = "get_access_logs"
    /\ response.statusCode = 200
    /\ last_stored.some
    /\ execTrace.filter = <<[key |-> "ip_address", val |-> last_stored.fields[2]]>>

\* the rows other than the stored one that share its address and are not
\* older than it
NotOlderSameAddress ==
    {i \in 1..Len(access_logs) :
        /\ access_logs[i].id # last_stored.id
        /\ ColumnOf(access_logs[i], "ip_address") = last_stored.fields[2]
        /\ DatetimeLeq(DatetimeOf(last_stored.fields[1].s),
                       ColumnOf(access_logs[i], "timestamp").s)}

ThreatsReturned ==
    /\ Answered
    /\ execTrace.handler = "get_security_threats"
    /\ response.statusCode = 200

\* the timestamp column of the row lies in the time range the event asks for
InRequestedRange(row) ==
    LET params == ParamsOf(BodyStrOf(event).doc)
    IN  /\ JTruthy(params.m["start_time"]) =>
              DatetimeLeq(DatetimeOf(params.m["start_time"].s),
                          ColumnOf(row, "timestamp").s)
        /\ JTruthy(params.m["end_time"]) =>
              DatetimeLeq(ColumnOf(row, "timestamp").s,
                          DatetimeOf(params.m["end_time"].s))

\* the stored records of address a with status code 401 in the range
FailedLogins(a) ==
    {i \in 1..Len(access_logs) :
        /\ ColumnOf(access_logs[i], "ip_address") = a
        /\ ColumnOf(access_logs[i], "status_code").n = 401
        /\ InRequestedRange(access_logs[i])}

\* the brute-force entries of the response for the address a
BruteForceEntries(a) ==
    {i \in 1..Len(response.body.threats) :
        /\ response.body.threats[i].type = "Brute Force Attack"
        /\ response.body.threats[i].ip_address = a}

\* C21: for every address with n stored records of status code 401 in the
\* requested time range, a successful get_security_threats returns exactly
\* one Brute Force Attack entry of severity HIGH with count = n when
\* n >= 3 and no brute-force entry for the address when n < 3.
C21_BruteForceCount ==
    ThreatsReturned =>
        \A a \in {IpAddr, IpAddr2} :
            IF Cardinality(FailedLogins(a)) >= 3
            THEN /\ Cardinality(BruteForceEntries(a)) = 1
                 /\ \A i \in BruteForceEntries(a) :
                       /\ response.body.threats[i].severity = "HIGH"
                       /\ response.body.threats[i].count
                             = Cardinality(FailedLogins(a))
            ELSE BruteForceEntries(a) = {}

\* three failed logins of one address were reported as one entry
C21_Witness ==
    /\ ThreatsReturned
    /\ Cardinality(FailedLogins(IpAddr)) = 3
    /\ Cardinality(BruteForceEntries(IpAddr)) = 1
    /\ response.body.threats[1].count = 3

\* two failed logins of one address in the range, a third outside it: no
\* entry
C21_WitnessBelow ==
    /\ ThreatsReturned
    /\ Cardinality(FailedLogins(IpAddr)) = 2
    /\ Len(access_logs) = 3
    /\ \A i \in 1..3 : ColumnOf(access_logs[i], "ip_address") = IpAddr
    /\ BruteForceEntries(IpAddr) = {}

\* the names of the claim C22
ClaimedNames ==
    {<<"p", "a", "s", "s", "w", "o", "r", "d">>, <<"a", "p", "i", "_", "k", "e", "y">>,
     <<"t", "o", "k", "e", "n">>, <<"s", "e", "c", "r", "e", "t">>}

\* the value v occurs in the logged value
RECURSIVE Occurs(_, _)
Occurs(v, tree) ==
    tree = v \/ \E i \in DOMAIN tree.items : Occurs(v, tree.items[i].val)

\* the value v occurs in the logged value outside every key of Names
RECURSIVE Exposed(_, _, _)
Exposed(v, tree, Names) ==
    \/ tree = v
    \/ \E i \in DOMAIN tree.items :
          tree.items[i].key \notin Names /\ Exposed(v, tree.items[i].val, Names)

\* out is the value in with the marker under every key of Names, at every
\* depth (a key redacted for another reason hides what is below it)
RECURSIVE MarkerUnder(_, _, _)
MarkerUnder(in, out, Names) ==
    \/ in.t = "str"
    \/ /\ out.t = in.t
       /\ DOMAIN out.items = DOMAIN in.items
       /\ \A i \in DOMAIN in.items :
             /\ out.items[i].key = in.items[i].key
             /\ IF in.items[i].key \in Names
                THEN out.items[i].val = REDACTED
                ELSE \/ out.items[i].val = REDACTED
                     \/ MarkerUnder(in.items[i].val, out.items[i].val, Names)

\* C22: for every field map passed to the logger, the record written holds
\* the redaction marker under every key named password, api_key, token or
\* secret, at any nesting depth of dicts and lists, and a value that occurs
\* under such keys only does not occur in the record.
C22_NamedKeysRedacted ==
    emitted.called =>
        /\ MarkerUnder(emitted.kwargs, emitted.record.fields, ClaimedNames)
        /\ ~Exposed(SecretValue, emitted.kwargs, ClaimedNames)
              => ~Occurs(SecretValue, emitted.record.fields)

\* a password in a dict in a list in a dict was replaced by the marker
C22_Witness ==
    /\ emitted.called
    /\ emitted.kwargs
         = LDict(<<[key |-> <<"u", "s", "e", "r">>,
                    val |-> LList(<<LDict(<<[key |-> <<"p", "a", "s", "s", "w", "o", "r", "d">>,
                                             val |-> SecretValue]>>)>>)]>>)
    /\ emitted.record.fields
         = LDict(<<[key |-> <<"u", "s", "e", "r">>,
                    val |-> LList(<<LDict(<<[key |-> <<"p", "a", "s", "s", "w", "o", "r", "d">>,
                                             val |-> REDACTED]>>)>>)]>>)

\* the sensitive-name patterns of the specification
NamePatterns ==
    {<<"p", "a", "s", "s", "w", "o", "r", "d">>,
     <<"c", "r", "e", "d", "e", "n", "t", "i", "a", "l">>,
     <<"t", "o", "k", "e", "n">>, <<"s", "e", "c", "r", "e", "t">>,
     <<"k", "e", "y">>,
     <<"a", "u", "t", "h", "o", "r", "i", "z", "a", "t", "i", "o", "n">>}

\* C23: the logger redacts every key that matches any of the patterns
\* password, credential, token, secret, key, authorization: a field whose
\* name contains one of them (key and apikey among them) holds the marker
\* in the record, at every nesting depth.
C23_PatternKeysRedacted ==
    emitted.called =>
        MarkerUnder(emitted.kwargs, emitted.record.fields,
                    {k \in LogKeys :
                        \E pat \in NamePatterns : Contains(lower(k), pat)})

\* the setting named n is missing: a database setting that is empty, or
\* API_KEYS with nothing but commas and blanks
IsMissing(n) ==
    IF n = "API_KEYS"
    THEN \A i \in DOMAIN cfg.API_KEYS_STR : cfg.API_KEYS_STR[i] \in {",", " "}
    ELSE cfg[n] = <<>>

SettingNames == <<"DB_HOST", "DB_NAME", "DB_USER", "DB_PASSWORD", "API_KEYS">>

\* C24: Config.validate raises exactly when a database setting is empty or
\* API_KEYS yields no non-empty key, and the names in its message are the
\* missing ones, each once, in the order of the settings; the call is then
\* answered 500 with the error Server configuration error and no name in
\* the body, before authenticate_request is called, and in no other case
\* does the call end at the configuration step.
C24_ConfigFailsFast ==
    /\ ConfigValidateRaises(cfg) <=> \E i \in 1..5 : IsMissing(SettingNames[i])
    /\ ConfigMissing(cfg)
         = SelectSeq(SettingNames, LAMBDA n : IsMissing(n))
    /\ Answered =>
         /\ stage = "config" <=> \E i \in 1..5 : IsMissing(SettingNames[i])
         /\ stage = "config" =>
               /\ response.statusCode = 500
               /\ response.body.error = Err("Server configuration error")
               /\ ~authTrace.called
               /\ ~valTrace.called
               /\ execTrace = NoExec

\* one database setting is missing and API_KEYS holds a blank and a comma:
\* both are named and the call was answered 500
C24_Witness ==
    /\ stage = "config"
    /\ ConfigMissing(cfg) = <<"DB_NAME", "API_KEYS">>
    /\ cfg.API_KEYS_STR # <<>>
    /\ response.statusCode = 500

\* the intent and the params of the request
RequestIntent == BodyStr(event).doc.intent.name

RequestParams == ParamsOf(BodyStr(event).doc)

\* a handler ran on a params mapping and built its statements
StatementsBuilt ==
    /\ execTrace.handler # "none"
    /\ RequestParams.kind = "dict"
    /\ execTrace.stmts # <<>>

\* the params the mapping p supplies
Supplied(p) == {k \in ParamKeys : p.m[k].t # "absent"}

\* the optional filters of the intent that p supplies with a truthy value
TruthyFilters(intent, p) ==
    {InKeys(intent)[i] :
        i \in {j \in 1..Len(InKeys(intent)) : JTruthy(p.m[InKeys(intent)[j]])}}

\* the statements the handler builds for the params p are, as far as the
\* call got, those of the call, text for text
SameTexts(p) ==
    \E plan \in {HandlerPlan(RequestIntent, p)} :
        ~plan.raised =>
            \A i \in DOMAIN execTrace.stmts :
                /\ i \in DOMAIN plan.stmts
                /\ plan.stmts[i].text = execTrace.stmts[i].text

\* the positions of the placeholders in a text
PlaceholdersOf(text) == {i \in DOMAIN text : text[i] = "%s"}

\* the param whose condition stands before the placeholder at i, "" if none
ParamBefore(text, i) ==
    IF \E j \in DOMAIN execTrace.filter :
          ConditionOf(execTrace.filter[j].key) = text[i - 1]
    THEN execTrace.filter[CHOOSE j \in DOMAIN execTrace.filter :
                             ConditionOf(execTrace.filter[j].key) = text[i - 1]].key
    ELSE ""

\* the value the request supplies for the placeholder of the param k
SuppliedFor(k) ==
    CASE k = "endpoint" -> JStr(<<"%">> \o RequestParams.m[k].s \o <<"%">>)
      [] k = "severity_score" -> JInt(PyInt(RequestParams.m[k]).v)
      [] k = "threshold_ms" -> PGetDefault(RequestParams, k, JInt(1000))
      [] k = "min_severity" -> PGetDefault(RequestParams, k, JInt(8))
      [] OTHER -> RequestParams.m[k]

\* st has as many bound values as placeholders, and the n-th value is the
\* one of the n-th placeholder: the param of its condition, the limit after
\* LIMIT, the n-th column of an INSERT
BoundInOrder(st) ==
    /\ Cardinality(PlaceholdersOf(st.text)) = Len(st.args)
    /\ \A i \in PlaceholdersOf(st.text) :
          \E n \in {Cardinality({j \in PlaceholdersOf(st.text) : j <= i})} :
              /\ n \in DOMAIN st.args
              /\ ParamBefore(st.text, i) # ""
                    => st.args[n] = SuppliedFor(ParamBefore(st.text, i))
              /\ st.sql \in {"select_access_logs", "select_error_logs"}
                    /\ i = Len(st.text)
                    => st.args[n] = JInt(st.limit)
              /\ st.sql = "insert_access_log"
                    => st.args[n] = PGet(RequestParams, AccessColumns[n])
              /\ st.sql = "insert_error_log" /\ n < Len(ErrorColumns)
                    => st.args[n] = PGet(RequestParams, ErrorColumns[n])

\* C25 as claimed: the text of every statement a handler builds is the text
\* it builds for any other request that supplies the same params, whatever
\* their values, and its bound values are as many as its placeholders, in
\* the same order.
C25_TextByPresentParams ==
    StatementsBuilt =>
        /\ \A p \in DictParamSamples :
              Supplied(p) = Supplied(RequestParams) => SameTexts(p)
        /\ \A i \in DOMAIN execTrace.stmts : BoundInOrder(execTrace.stmts[i])

\* C25, amended: the text of every statement a handler builds is the text
\* it builds for any other request that supplies truthy values for the same
\* optional filters (a filter supplied as 0 or '' is left out of the text
\* as if it were absent), whatever the values, and its bound values are as
\* many as its placeholders, in the same order.
C25_TextByTruthyFilters ==
    StatementsBuilt =>
        /\ \A p \in DictParamSamples :
              TruthyFilters(RequestIntent, p)
                  = TruthyFilters(RequestIntent, RequestParams)
              => SameTexts(p)
        /\ \A i \in DOMAIN execTrace.stmts : BoundInOrder(execTrace.stmts[i])

\* get_access_logs filtered by address, status and endpoint sent the text of
\* the same filters with other values, and bound its three values and the
\* limit in the order of the placeholders
C25_Witness ==
    /\ StatementsBuilt
    /\ RequestIntent = "get_access_logs"
    /\ execTrace.stmts[1].sent = 1
    /\ execTrace.stmts[1].text
         = HandlerPlan("get_access_logs", ParamsWith(AccessLogParams)).stmts[1].text
    /\ Cardinality(PlaceholdersOf(execTrace.stmts[1].text)) = 4
    /\ execTrace.stmts[1].args
         = <<JStr(<<"5", ".", "6", ".", "7", ".", "8">>), JInt(200),
             JStr(<<"%", "/", "a", "%">>), JInt(100)>>

\* the statements of the read operations
ReadStatements ==
    {"select_access_logs", "select_error_logs", "count_total", "count_errors",
     "top_endpoints", "top_ips", "brute_force", "sql_injection",
     "slow_endpoints", "anomalies"}

\* the text of st ends with LIMIT and a placeholder, and the value bound to
\* it is the limit of the statement
EndsWithBoundLimit(st) ==
    /\ Len(st.text) >= 2
    /\ st.text[Len(st.text) - 1] = "LIMIT"
    /\ st.text[Len(st.text)] = "%s"
    /\ st.args # <<>>
    /\ st.args[Len(st.args)] = JInt(st.limit)
    /\ st.limit > 0

\* C26 as claimed: every statement a read operation sends ends with a LIMIT
\* whose value is a bound parameter.
C26_ReadsEndWithBoundLimit ==
    \A i \in DOMAIN execTrace.stmts :
        (execTrace.stmts[i].sql \in ReadStatements /\ execTrace.stmts[i].sent > 0)
            => EndsWithBoundLimit(execTrace.stmts[i])

\* the reads whose statement does end with a bound LIMIT
C26_LogReadsEndWithBoundLimit ==
    \A i \in DOMAIN execTrace.stmts :
        (execTrace.stmts[i].sql \in {"select_access_logs", "select_error_logs"}
         /\ execTrace.stmts[i].sent > 0)
            => EndsWithBoundLimit(execTrace.stmts[i])

\* a statement of get_security_threats was sent without any LIMIT
C26_NoLimitSent ==
    \E i \in DOMAIN execTrace.stmts :
        /\ execTrace.stmts[i].sql = "sql_injection"
        /\ execTrace.stmts[i].returned
        /\ \A j \in DOMAIN execTrace.stmts[i].text :
              execTrace.stmts[i].text[j] # "LIMIT"

\* a get_access_logs call returned its list
ReadReturned ==
    /\ execTrace.handler = "get_access_logs"
    /\ response.statusCode = 200
    /\ response.body.success

\* no two rows of access_logs have the same timestamp
DistinctTimestamps ==
    \A i, j \in DOMAIN access_logs :
        i # j => ColumnOf(access_logs[i], "timestamp")
                   # ColumnOf(access_logs[j], "timestamp")

\* C27 as claimed: a get_access_logs call repeated with the same filters and
\* limit against an unchanged table returns the same records in the same
\* order, also when rows have equal timestamps.
C27_SameReadSameOrder ==
    [][(ReadReturned /\ ReadReturned' /\ event' = event
        /\ access_logs' = access_logs)
          => response'.body.logs = response.body.logs]_vars

\* the same for a table without equal timestamps
C27_SameOrderWithoutTies ==
    [][(ReadReturned /\ ReadReturned' /\ event' = event
        /\ access_logs' = access_logs /\ DistinctTimestamps)
          => response'.body.logs = response.body.logs]_vars

\* a store call succeeded: the table and the columns it wrote
StoreSucceeded ==
    /\ execTrace.handler \in {"store_access_log", "store_error_log"}
    /\ response.statusCode = 200
    /\ response.body.success

StoredTable ==
    IF execTrace.handler = "store_access_log" THEN access_logs ELSE error_logs

StoredColumns ==
    IF execTrace.handler = "store_access_log" THEN AccessColumns ELSE ErrorColumns

\* the new record holds null in every column of Columns that the request
\* did not supply, null was the value bound for it, and data.id is the id
\* of the new record
OmittedStoredNull(Columns) ==
    /\ StoredTable # <<>>
    /\ \E row \in {StoredTable[Len(StoredTable)]} :
          /\ response.body.id = row.id
          /\ \A i \in DOMAIN StoredColumns :
                (StoredColumns[i] \in Columns
                 /\ RequestParams.m[StoredColumns[i]].t = "absent")
                    => /\ row.cols[i] = JNull
                       /\ execTrace.stmts[1].args[i] = JNull

\* C28 as claimed: after a successful store_access_log or store_error_log
\* every optional column the params omit is stored as null, and data.id is
\* the identifier of the new record.
C28_OmittedStoredNull ==
    StoreSucceeded => OmittedStoredNull(ParamKeys)

\* the same for every column but severity_score
C28_OmittedButSeverityStoredNull ==
    StoreSucceeded => OmittedStoredNull(ParamKeys \ {"severity_score"})

\* store_access_log without the optional fields stored nulls and returned
\* the new id
C28_AccessNullsStored ==
    /\ StoreSucceeded
    /\ execTrace.handler = "store_access_log"
    /\ RequestParams.m["user_agent"].t = "absent"
    /\ access_logs[Len(access_logs)].cols[9] = JNull
    /\ response.body.id = access_logs[Len(access_logs)].id

\* thread t returned success from store_access_log
StoreReported(t) ==
    /\ threads[t].returned
    /\ threads[t].success
    /\ threads[t].intent = "store_access_log"

\* the record thread t inserted is committed
RecordCommitted(t) ==
    \E i \in DOMAIN access_logs :
        /\ access_logs[i].id = threads[t].id
        /\ access_logs[i].cols = threads[t].cols
        /\ access_logs[i].by = t

\* C29: when the invocations of an instance are serial (no other
\* invocation was inside a call while this one was), every store call that
\* reports success has its record committed.  That an interleaving of two
\* invocations on the one connection loses a record reported stored is the
\* state C29_Witness.
C29_SerialStoreCommitted ==
    \A t \in Threads :
        (StoreReported(t) /\ ~threads[t].overlapped) => RecordCommitted(t)

\* two invocations were interleaved on the shared connection: one reported
\* its record stored, the other rolled back, and the record is neither
\* committed nor pending
C29_Witness ==
    \E t \in Threads : \E u \in Threads \ {t} :
        /\ StoreReported(t)
        /\ threads[t].overlapped
        /\ threads[u].returned /\ ~threads[u].success
        /\ threads[u].rollbacks = 1
        /\ uncommitted = <<>>
        /\ \A i \in DOMAIN access_logs : access_logs[i].id # threads[t].id

\* a serial store call reported success and its record is committed
C29_SerialWitness ==
    \E t \in Threads :
        /\ StoreReported(t)
        /\ ~threads[t].overlapped
        /\ RecordCommitted(t)
        /\ \E u \in Threads \ {t} : threads[u].returned /\ threads[u].rollbacks = 1

\* thread t returned success from get_traffic_summary with no other
\* invocation of its instance inside a call meanwhile
SummaryReported(t) ==
    /\ threads[t].returned
    /\ threads[t].success
    /\ threads[t].intent = "get_traffic_summary"
    /\ ~threads[t].overlapped

\* C30 as claimed: in every successful get_traffic_summary response
\* error_count <= total_requests, and error_rate is 0 when total_requests
\* is 0, also when other instances commit inserts between the queries of
\* the handler.
C30_ErrorsWithinTotal ==
    \A t \in Threads :
        SummaryReported(t) =>
            /\ threads[t].errors <= threads[t].total
            /\ threads[t].total = 0 => threads[t].error_rate = 0

\* the part of C30 that holds: error_rate is 0 when total_requests is 0
C30_ZeroRateWithoutRequests ==
    \A t \in Threads :
        SummaryReported(t) =>
            (threads[t].total = 0 => threads[t].error_rate = 0)

\* a summary reported more errors than requests
C30_MoreErrorsThanRequests ==
    \E t \in Threads :
        /\ SummaryReported(t)
        /\ threads[t].total = 0
        /\ threads[t].errors = 1
        /\ threads[t].error_rate = 0

====
